---- MODULE Spec2Model ----
(***************************************************************************)
(* Subscription bot: payment confirmation (payment_handler.py,             *)
(* handlers.py), the ledger (database.py) and the membership sweeps        *)
(* (scheduler.py).  Every await of the code is one step of the process     *)
(* that runs it; a store call or a chat call either succeeds or raises.    *)
(* Time is counted in days.                                                *)
(***************************************************************************)
EXTENDS Integers, Sequences, FiniteSets, TLC

\* ---------------------------------------------------------------- bounds
NumUsers == 1
NumInvoices == 2
MaxTime == 4

\* ------------------------------------------------- configuration (config.py)
PAID_SUBSCRIPTION_DAYS == 1
FREE_TRIAL_DAYS == 3
CHANNEL_1_PRICE == 1990
CHANNEL_2_PRICE == 1990
ROBOKASSA_CHANNEL_1_PASSWORD_2 == "password2_channel_1"
ROBOKASSA_CHANNEL_2_PASSWORD_2 == "password2_channel_2"
ROBOKASSA_CHANNEL_1_PASSWORD_1 == "password1_channel_1"

Users == 1..NumUsers
Channels == {"channel_1", "channel_2"}
InvIds == 1..NumInvoices
Web == {"w1", "w2"}

VARIABLES
    now,          \* datetime.now(), in days
    users,        \* table users: rows [telegram_id, gift_received]
    subs,         \* table subscriptions
    payments,     \* table payments
    reminders,    \* table reminders
    whitelist,    \* table whitelist: rows [telegram_id, channel_name]
    memberships,  \* table channel_memberships
    chat,         \* the Bot API calls made by the last step, in order
    web,          \* one frame per running robokassa_result_handler
    job,          \* the frame of the running sweep (scheduler.py)
    adm           \* the frame of the running admin operation

db == <<users, subs, payments, reminders, whitelist, memberships>>
procs == <<web, job, adm>>
vars == <<now, users, subs, payments, reminders, whitelist, memberships, chat, web, job, adm>>

\* ------------------------------------------------------------ Bot API calls
Call(op, u, c, ok) == [op |-> op, uid |-> u, ch |-> c, ok |-> ok]

\* ------------------------------------------------------------------ ledger
Price(c) == IF c = "channel_1" THEN CHANNEL_1_PRICE ELSE CHANNEL_2_PRICE

get_user(u) == {r \in users : r.telegram_id = u}

\* INSERT ... ON CONFLICT (telegram_id) DO UPDATE of the display attributes:
\* an existing row keeps gift_received.
add_user(U, u) ==
    IF \E r \in U : r.telegram_id = u THEN U
    ELSE U \cup {[telegram_id |-> u, gift_received |-> FALSE]}

get_payment(inv) == {r \in payments : r.payment_id = inv}

\* variant: INSERT ... ON CONFLICT (payment_id) DO UPDATE
create_payment_Upsert(P, u, c, amount, inv, status) ==
    IF get_user(u) = {}
    THEN <<P, TRUE>>
    ELSE <<{r \in P : r.payment_id # inv}
              \cup {[payment_id |-> inv, telegram_id |-> u, channel_name |-> c,
                     amount |-> amount, status |-> status]}, FALSE>>

\* INSERT INTO payments; payment_id is UNIQUE and telegram_id references
\* users, so the statement raises (TRUE in the second component) otherwise.
create_payment(P, u, c, amount, inv, status) ==
    IF (\E r \in P : r.payment_id = inv) \/ get_user(u) = {}
    THEN <<P, TRUE>>
    ELSE <<P \cup {[payment_id |-> inv, telegram_id |-> u, channel_name |-> c,
                    amount |-> amount, status |-> status]}, FALSE>>

\* variant: an UPDATE whose WHERE clause matches no row
update_payment_status_NoRow(P, inv, status) == P

update_payment_status(P, inv, status) ==
    {IF r.payment_id = inv THEN [r EXCEPT !.status = status] ELSE r : r \in P}

SubRows(S, u, c) == {r \in S : r.telegram_id = u /\ r.channel_name = c}

SubRow(u, c, active, method, start, end) ==
    [telegram_id |-> u, channel_name |-> c, is_active |-> active,
     payment_method |-> method, start_date |-> start, end_date |-> end]

\* variant: a plain INSERT into a table without the UNIQUE constraint
create_subscription_write_Insert(S, existing, u, c, method, start, end, active) ==
    <<S \cup {SubRow(u, c, active, method, start, end)}, FALSE>>

\* variant: a plain INSERT under the UNIQUE constraint, no UPDATE branch: the
\* statement raises when the pair has a row
create_subscription_write_Raise(S, existing, u, c, method, start, end, active) ==
    IF SubRows(S, u, c) # {} THEN <<S, TRUE>>
    ELSE <<S \cup {SubRow(u, c, active, method, start, end)}, FALSE>>

\* variant: the UPDATE adds the new period to the end date of the row
create_subscription_write_Stack(S, existing, u, c, method, start, end, active) ==
    IF existing
    THEN <<{IF r \in SubRows(S, u, c)
            THEN SubRow(u, c, active, method, start, r.end_date + (end - start))
            ELSE r : r \in S}, FALSE>>
    ELSE IF SubRows(S, u, c) # {}
         THEN <<S, TRUE>>
         ELSE <<S \cup {SubRow(u, c, active, method, start, end)}, FALSE>>

\* variant: start_date and end_date bound in the other order
create_subscription_write_Swapped(S, existing, u, c, method, start, end, active) ==
    IF existing
    THEN <<{IF r \in SubRows(S, u, c)
            THEN SubRow(u, c, active, method, end, start) ELSE r : r \in S}, FALSE>>
    ELSE IF SubRows(S, u, c) # {}
         THEN <<S, TRUE>>
         ELSE <<S \cup {SubRow(u, c, active, method, end, start)}, FALSE>>

\* create_subscription, second statement: UPDATE when the SELECT found a row,
\* INSERT otherwise; UNIQUE(telegram_id, channel_name) makes the INSERT raise
\* (TRUE in the second component) when a row is there.
create_subscription_write(S, existing, u, c, method, start, end, active) ==
    IF existing
    THEN <<{IF r \in SubRows(S, u, c)
            THEN SubRow(u, c, active, method, start, end) ELSE r : r \in S}, FALSE>>
    ELSE IF SubRows(S, u, c) # {}
         THEN <<S, TRUE>>
         ELSE <<S \cup {SubRow(u, c, active, method, start, end)}, FALSE>>

\* variant: SELECT COUNT(*) ... AND is_active = TRUE
has_ever_had_subscription_Active(S, u, c) ==
    Cardinality({r \in SubRows(S, u, c) : r.is_active}) > 0

has_ever_had_subscription(S, u, c) == Cardinality(SubRows(S, u, c)) > 0

\* ------------------------------------------------------- signature scheme
\* hashlib.md5(...).hexdigest(): an injective digest of the signed string,
\* in lower case; a gateway may send it in upper case.
md5(str) == [digest |-> str, upper |-> FALSE]
lower(sig) == [sig EXCEPT !.upper = FALSE]
EmptyString == [digest |-> <<>>, upper |-> FALSE]

\* Python's order of the parameter names
KeyRank(k) == IF k = "Shp_a" THEN 1 ELSE 2

\* shp_params: the dict built from the pairs in arrival order (a later pair
\* of the same name replaces an earlier one)
ShpDict(pairs) ==
    {kv \in {pairs[i] : i \in DOMAIN pairs} :
        \E i \in DOMAIN pairs :
            /\ pairs[i] = kv
            /\ \A j \in DOMAIN pairs : pairs[j][1] = kv[1] => j <= i}

\* ':'.join(f"{key}={value}" for key, value in sorted(shp_params.items()))
ShpString(d) ==
    CHOOSE s \in [1..Cardinality(d) -> d] :
        \A i, j \in 1..Cardinality(d) : i < j => KeyRank(s[i][1]) < KeyRank(s[j][1])

SignatureString(amount, inv, password, d) ==
    IF d = {} THEN <<amount, inv, password>>
    ELSE <<amount, inv, password, ShpString(d)>>

\* variant: the digests are compared as they are, upper case and all
verify_payment_signature_Exact(amount, inv, signature, password, d) ==
    md5(SignatureString(amount, inv, password, d)) = signature

\* variant: every signature passes
verify_payment_signature_Any(amount, inv, signature, password, d) == TRUE

verify_payment_signature(amount, inv, signature, password, d) ==
    lower(md5(SignatureString(amount, inv, password, d))) = lower(signature)

\* A ResultURL request.  OutSum is in hundredths of a ruble.
Event(sum, inv, signature, pairs) ==
    [OutSum |-> sum, InvId |-> inv, SignatureValue |-> signature, shp |-> pairs]

\* The request Robokassa builds for an invoice from an amount and a password
Notification(inv, sum, password, u) ==
    Event(sum, inv,
          md5(SignatureString(sum, inv, password, {<<"Shp_user_id", u>>})),
          << <<"Shp_user_id", u>> >>)

OutSums == {100 * CHANNEL_1_PRICE + d : d \in 0..2}
Passwords == {ROBOKASSA_CHANNEL_1_PASSWORD_2, ROBOKASSA_CHANNEL_2_PASSWORD_2,
              ROBOKASSA_CHANNEL_1_PASSWORD_1}
Events ==
    {Notification(inv, sum, pw, u) :
        inv \in InvIds, sum \in OutSums, pw \in Passwords, u \in Users}
    \cup {Event(100 * CHANNEL_1_PRICE, 1, EmptyString, <<>>)}

\* The Shp_ parameters of a request in their order of arrival: none, the
\* user id, or the user id and a second parameter in either order
Arrivals(u) ==
    { <<>>, << <<"Shp_user_id", u>> >>,
      << <<"Shp_a", 1>>, <<"Shp_user_id", u>> >>,
      << <<"Shp_user_id", u>>, <<"Shp_a", 1>> >> }

\* Requests with a signature made over some string of the parameters, sorted
\* or in another order, with some password, in lower or in upper case
EventsSig ==
    {Event(100 * CHANNEL_1_PRICE, inv,
           [md5(IF signed = <<>> THEN <<100 * CHANNEL_1_PRICE, inv, pw>>
                ELSE <<100 * CHANNEL_1_PRICE, inv, pw, signed>>) EXCEPT !.upper = up],
           pairs) :
        inv \in InvIds, pw \in Passwords, up \in BOOLEAN,
        pairs \in UNION {Arrivals(u) : u \in Users},
        signed \in UNION {Arrivals(u) : u \in Users}}

\* The user ids a request may name in Shp_user_id: the users, and one more
ShpUsers == 1..(NumUsers + 1)

\* Requests signed over their own parameters with the password of a channel,
\* naming any user id in Shp_user_id, or none
EventsShp ==
    {Event(100 * CHANNEL_1_PRICE, inv,
           md5(SignatureString(100 * CHANNEL_1_PRICE, inv, pw, ShpDict(pairs))), pairs) :
        inv \in InvIds,
        pw \in {ROBOKASSA_CHANNEL_1_PASSWORD_2, ROBOKASSA_CHANNEL_2_PASSWORD_2},
        pairs \in UNION {Arrivals(u) : u \in ShpUsers}}

\* ------------------------------------------- robokassa_result_handler frames
Resp(text, inv) == <<text, inv>>
IdleWeb ==
    [pc |-> "idle", inv |-> 0, uid |-> 0, ch |-> "-",
     stage |-> "-", start |-> -1, end |-> -1, bstart |-> -1, bend |-> -1,
     existing |-> FALSE, caller |-> "-", resp |-> Resp("-", 0)]

Abs(x) == IF x < 0 THEN -x ELSE x

\* abs(expected_amount - received_amount) > 0.01 on floats: one hundredth of
\* difference is still accepted.
AmountMismatch(amount, sum) == Abs(100 * amount - sum) > 1

Password2(c) ==
    IF c = "channel_1" THEN ROBOKASSA_CHANNEL_1_PASSWORD_2
    ELSE ROBOKASSA_CHANNEL_2_PASSWORD_2

\* variant: no "already processed" check before the processing
Verdict_NoReplayCheck(ev, rows) ==
    IF ev.SignatureValue = EmptyString THEN "ERROR: Missing parameters"
    ELSE IF rows = {} THEN "ERROR: Payment not found"
    ELSE LET payment == CHOOSE r \in rows : TRUE IN
         IF AmountMismatch(payment.amount, ev.OutSum) THEN "ERROR: Amount mismatch"
         ELSE IF payment.channel_name \notin Channels THEN "ERROR: Unknown channel"
         ELSE IF ~verify_payment_signature(ev.OutSum, ev.InvId, ev.SignatureValue,
                     Password2(payment.channel_name), ShpDict(ev.shp))
              THEN "ERROR: Invalid signature"
         ELSE "process"

\* variant: the signature is checked before the amount
Verdict_SignatureFirst(ev, rows) ==
    IF ev.SignatureValue = EmptyString THEN "ERROR: Missing parameters"
    ELSE IF rows = {} THEN "ERROR: Payment not found"
    ELSE LET payment == CHOOSE r \in rows : TRUE IN
         IF payment.channel_name \notin Channels THEN "ERROR: Unknown channel"
         ELSE IF ~verify_payment_signature(ev.OutSum, ev.InvId, ev.SignatureValue,
                     Password2(payment.channel_name), ShpDict(ev.shp))
              THEN "ERROR: Invalid signature"
         ELSE IF AmountMismatch(payment.amount, ev.OutSum) THEN "ERROR: Amount mismatch"
         ELSE IF payment.status = "success" THEN "OK"
         ELSE "process"

\* Lines 35-80: the answer of the checks, or "process" to go on
Verdict(ev, rows) ==
    IF ev.SignatureValue = EmptyString THEN "ERROR: Missing parameters"
    ELSE IF rows = {} THEN "ERROR: Payment not found"
    ELSE LET payment == CHOOSE r \in rows : TRUE IN
         IF AmountMismatch(payment.amount, ev.OutSum) THEN "ERROR: Amount mismatch"
         ELSE IF payment.channel_name \notin Channels THEN "ERROR: Unknown channel"
         ELSE IF ~verify_payment_signature(ev.OutSum, ev.InvId, ev.SignatureValue,
                     Password2(payment.channel_name), ShpDict(ev.shp))
              THEN "ERROR: Invalid signature"
         ELSE IF payment.status = "success" THEN "OK"
         ELSE "process"

\* the handler returns web.Response(text=...)
Done(w, text) ==
    web' = [web EXCEPT ![w].pc = "done",
                       ![w].resp = Resp(text, IF text = "OK" THEN web[w].inv ELSE 0)]

Goto(w, pc) == web' = [web EXCEPT ![w].pc = pc]

\* The grant the frame is about to write: the paid one, or the bonus
Grant(f) ==
    IF f.stage = "paid"
    THEN [ch |-> f.ch, method |-> "paid", start |-> f.start, end |-> f.end]
    ELSE [ch |-> "channel_1", method |-> "gift", start |-> f.bstart, end |-> f.bend]

\* --------------------------------------------------------- time and users
Tick ==
    /\ now < MaxTime
    /\ now' = now + 1
    /\ chat' = <<>>
    /\ UNCHANGED <<db, procs>>

\* /start: db.add_user
cmd_start(u) ==
    /\ users' = add_user(users, u)
    /\ chat' = <<>>
    /\ UNCHANGED <<now, subs, payments, reminders, whitelist, memberships, procs>>

\* pay_<channel>: a fresh invoice id and a pending payment row; a failing
\* INSERT ends the callback with nothing written.
callback_payment(u, c, inv) ==
    /\ payments' = create_payment(payments, u, c, Price(c), inv, "pending")[1]
    /\ chat' = <<>>
    /\ UNCHANGED <<now, users, subs, reminders, whitelist, memberships, procs>>

\* variant: the user of the grant is the one named by Shp_user_id
ConfirmLookup_ShpUser(w, ev, ok) ==
    LET rows == get_payment(ev.InvId)
        verdict == Verdict(ev, rows)
        payment == CHOOSE r \in rows : TRUE
        named == {kv[2] : kv \in {x \in ShpDict(ev.shp) : x[1] = "Shp_user_id"}}
        f == [IdleWeb EXCEPT !.inv = ev.InvId]
    IN  /\ web[w].pc = "idle"
        /\ IF ~ok /\ ev.SignatureValue # EmptyString
           THEN web' = [web EXCEPT ![w] = [f EXCEPT !.pc = "done",
                            !.resp = Resp("500 Internal Server Error", 0)]]
           ELSE IF verdict # "process"
           THEN web' = [web EXCEPT ![w] = [f EXCEPT !.pc = "done",
                            !.resp = Resp(verdict, IF verdict = "OK" THEN ev.InvId ELSE 0)]]
           ELSE web' = [web EXCEPT ![w] = [f EXCEPT !.pc = "select", !.stage = "paid",
                                   !.caller = "robokassa_result_handler",
                                   !.uid = IF named = {} THEN payment.telegram_id
                                           ELSE CHOOSE u \in named : TRUE,
                                   !.ch = payment.channel_name,
                                   !.start = now,
                                   !.end = now + PAID_SUBSCRIPTION_DAYS]]
        /\ chat' = <<>>
        /\ UNCHANGED <<now, db, job, adm>>

\* variant: the status is updated before process_payment_success is called
ConfirmLookup_FlipFirst(w, ev, ok) ==
    LET rows == get_payment(ev.InvId)
        verdict == Verdict(ev, rows)
        payment == CHOOSE r \in rows : TRUE
        f == [IdleWeb EXCEPT !.inv = ev.InvId]
    IN  /\ web[w].pc = "idle"
        /\ IF ~ok /\ ev.SignatureValue # EmptyString
           THEN /\ payments' = payments
                /\ web' = [web EXCEPT ![w] = [f EXCEPT !.pc = "done",
                                !.resp = Resp("500 Internal Server Error", 0)]]
           ELSE IF verdict # "process"
           THEN /\ payments' = payments
                /\ web' = [web EXCEPT ![w] = [f EXCEPT !.pc = "done",
                                !.resp = Resp(verdict, IF verdict = "OK" THEN ev.InvId ELSE 0)]]
           ELSE /\ payments' = update_payment_status(payments, ev.InvId, "success")
                /\ web' = [web EXCEPT ![w] = [f EXCEPT !.pc = "select", !.stage = "paid",
                                   !.caller = "robokassa_result_handler",
                                   !.uid = payment.telegram_id,
                                   !.ch = payment.channel_name,
                                   !.start = now,
                                   !.end = now + PAID_SUBSCRIPTION_DAYS]]
        /\ chat' = <<>>
        /\ UNCHANGED <<now, users, subs, reminders, whitelist, memberships, job, adm>>

\* ---------------------------------------------- robokassa_result_handler
\* Lines 15-87 and handlers.py 163-171: the request, db.get_payment, the
\* checks, and the dates of the grant.  A raising get_payment leaves the
\* handler.
ConfirmLookup(w, ev, ok) ==
    LET rows == get_payment(ev.InvId)
        verdict == Verdict(ev, rows)
        payment == CHOOSE r \in rows : TRUE
        f == [IdleWeb EXCEPT !.inv = ev.InvId]
    IN  /\ web[w].pc = "idle"
        /\ IF ~ok /\ ev.SignatureValue # EmptyString
           THEN web' = [web EXCEPT ![w] = [f EXCEPT !.pc = "done",
                            !.resp = Resp("500 Internal Server Error", 0)]]
           ELSE IF verdict # "process"
           THEN web' = [web EXCEPT ![w] = [f EXCEPT !.pc = "done",
                            !.resp = Resp(verdict, IF verdict = "OK" THEN ev.InvId ELSE 0)]]
           ELSE web' = [web EXCEPT ![w] = [f EXCEPT !.pc = "select", !.stage = "paid",
                                   !.caller = "robokassa_result_handler",
                                   !.uid = payment.telegram_id,
                                   !.ch = payment.channel_name,
                                   !.start = now,
                                   !.end = now + PAID_SUBSCRIPTION_DAYS]]
        /\ chat' = <<>>
        /\ UNCHANGED <<now, db, job, adm>>

\* process_payment_success called for a user of the users table, lines 160-171
process_payment_success(w, u, c) ==
    /\ web[w].pc = "idle"
    /\ get_user(u) # {}
    /\ web' = [web EXCEPT ![w] = [IdleWeb EXCEPT !.pc = "select", !.stage = "paid",
                    !.caller = "-", !.uid = u, !.ch = c, !.start = now,
                    !.end = now + PAID_SUBSCRIPTION_DAYS]]
    /\ chat' = <<>>
    /\ UNCHANGED <<now, db, job, adm>>

\* create_subscription, first statement: SELECT id FROM subscriptions
ConfirmSelect(w, ok) ==
    LET f == web[w] IN
    /\ f.pc = "select"
    /\ IF ok
       THEN web' = [web EXCEPT ![w].pc = "write",
                               ![w].existing = SubRows(subs, f.uid, Grant(f).ch) # {}]
       ELSE Done(w, "ERROR: Processing failed")
    /\ chat' = <<>>
    /\ UNCHANGED <<now, db, job, adm>>

\* create_subscription, second statement
ConfirmWrite(w, ok) ==
    LET f == web[w]
        g == Grant(f)
        res == create_subscription_write(subs, f.existing, f.uid, g.ch, g.method,
                                         g.start, g.end, TRUE)
    IN  /\ f.pc = "write"
        /\ IF ok /\ ~res[2]
           THEN subs' = res[1] /\ Goto(w, "add")
           ELSE subs' = subs /\ Done(w, "ERROR: Processing failed")
        /\ chat' = <<>>
        /\ UNCHANGED <<now, users, payments, reminders, whitelist, memberships, job, adm>>

\* add_user_to_channel, line 30: bot.unban_chat_member; its exception is
\* caught by the outer except and the function returns
ConfirmUnban(w, ok) ==
    LET f == web[w] IN
    /\ f.pc = "add"
    /\ chat' = <<Call("unban", f.uid, Grant(f).ch, ok)>>
    /\ Goto(w, IF ok THEN "add_invite" ELSE "invite")
    /\ UNCHANGED <<now, db, job, adm>>

\* variant: the link of add_user_to_channel also records the pair as not
\* banned
ConfirmLink_Record(w, ok) ==
    LET f == web[w] IN
    /\ f.pc = "add_invite"
    /\ chat' = <<Call("invite", f.uid, Grant(f).ch, ok)>>
    /\ memberships' =
          {m \in memberships : ~(m.telegram_id = f.uid /\ m.channel_name = Grant(f).ch)}
             \cup {[telegram_id |-> f.uid, channel_name |-> Grant(f).ch,
                    is_banned |-> FALSE, is_whitelisted |-> FALSE,
                    banned_at |-> -1, last_verified |-> now]}
    /\ Goto(w, IF ok THEN "add_send" ELSE "invite")
    /\ UNCHANGED <<now, users, subs, payments, reminders, whitelist, job, adm>>

\* add_user_to_channel, line 34: bot.create_chat_invite_link; its exception
\* is printed and the function returns
ConfirmLink(w, ok) ==
    LET f == web[w] IN
    /\ f.pc = "add_invite"
    /\ chat' = <<Call("invite", f.uid, Grant(f).ch, ok)>>
    /\ Goto(w, IF ok THEN "add_send" ELSE "invite")
    /\ UNCHANGED <<now, db, job, adm>>

\* add_user_to_channel, line 41: bot.send_message with the link; its
\* exception is passed over
ConfirmSendLink(w, ok) ==
    LET f == web[w] IN
    /\ f.pc = "add_send"
    /\ chat' = <<Call("send_link", f.uid, Grant(f).ch, ok)>>
    /\ Goto(w, "invite")
    /\ UNCHANGED <<now, db, job, adm>>

\* await add_user_to_channel(bot, user_id, channel_id): its three calls
ConfirmAdd(w, B) ==
    \E ok \in B :
        \/ ConfirmUnban(w, ok)
        \/ ConfirmLink(w, ok)
        \/ ConfirmSendLink(w, ok)

\* variant: the except branch logs and goes on without a link
ConfirmInvite_Logged(w, ok) ==
    LET f == web[w] IN
    /\ f.pc = "invite"
    /\ chat' = <<Call("invite", f.uid, Grant(f).ch, ok)>>
    /\ IF f.stage = "paid" /\ f.ch = "channel_2" THEN Goto(w, "hasever")
       ELSE Goto(w, "notify")
    /\ UNCHANGED <<now, db, job, adm>>

\* bot.create_chat_invite_link; the except branch calls logger, a name
\* handlers.py never defines, so a failure leaves process_payment_success.
ConfirmInvite(w, ok) ==
    LET f == web[w] IN
    /\ f.pc = "invite"
    /\ chat' = <<Call("invite", f.uid, Grant(f).ch, ok)>>
    /\ IF ~ok THEN Done(w, "ERROR: Processing failed")
       ELSE IF f.stage = "paid" /\ f.ch = "channel_2" THEN Goto(w, "hasever")
       ELSE Goto(w, "notify")
    /\ UNCHANGED <<now, db, job, adm>>

\* Lines 194-199: the bonus rule
ConfirmHasEver(w, ok) ==
    LET f == web[w] IN
    /\ f.pc = "hasever"
    /\ IF ~ok THEN Done(w, "ERROR: Processing failed")
       ELSE IF has_ever_had_subscription(subs, f.uid, "channel_1")
       THEN Goto(w, "notify")
       ELSE web' = [web EXCEPT ![w].pc = "select", ![w].stage = "bonus",
                               ![w].bstart = now,
                               ![w].bend = now + FREE_TRIAL_DAYS]
    /\ chat' = <<>>
    /\ UNCHANGED <<now, db, job, adm>>

\* bot.send_message with the success text (with or without the bonus)
ConfirmNotify(w, ok) ==
    LET f == web[w] IN
    /\ f.pc = "notify"
    /\ chat' = <<Call(IF f.stage = "bonus" THEN "send_bonus" ELSE "send_paid",
                      f.uid, f.ch, ok)>>
    /\ IF ~ok THEN Done(w, "ERROR: Processing failed")
       ELSE IF f.caller = "robokassa_result_handler" THEN Goto(w, "flip")
       ELSE Done(w, "-")
    /\ UNCHANGED <<now, db, job, adm>>

\* db.update_payment_status(InvId, 'success'), inside the try
ConfirmFlip(w, ok) ==
    LET f == web[w] IN
    /\ f.pc = "flip"
    /\ IF ok
       THEN /\ payments' = update_payment_status(payments, f.inv, "success")
            /\ Done(w, "OK")
       ELSE /\ payments' = payments
            /\ Done(w, "ERROR: Processing failed")
    /\ chat' = <<>>
    /\ UNCHANGED <<now, users, subs, reminders, whitelist, memberships, job, adm>>

\* the response is sent
ConfirmReturn(w) ==
    /\ web[w].pc = "done"
    /\ web' = [web EXCEPT ![w] = IdleWeb]
    /\ chat' = <<>>
    /\ UNCHANGED <<now, db, job, adm>>

\* the steps of a running handler; B holds the outcomes of its store and
\* chat calls (TRUE: the call returns, FALSE: it raises)
Process(w, B) ==
    \/ \E ok \in B :
          \/ ConfirmSelect(w, ok)
          \/ ConfirmWrite(w, ok)
          \/ ConfirmInvite(w, ok)
          \/ ConfirmHasEver(w, ok)
          \/ ConfirmNotify(w, ok)
    \/ ConfirmAdd(w, B)
    \/ ConfirmReturn(w)

Confirm(w, B) ==
    \/ Process(w, B)
    \/ \E ok \in B : ConfirmFlip(w, ok)

\* ------------------------------------------------------ sweeps: the ledger
deactivate_subscription(S, u, c) ==
    {IF r \in SubRows(S, u, c) THEN [r EXCEPT !.is_active = FALSE] ELSE r : r \in S}

\* variant: COUNT(*) > 1
is_whitelisted_Twice(W, u, c) ==
    Cardinality({r \in W : r.telegram_id = u /\ r.channel_name = c}) > 1

is_whitelisted(W, u, c) ==
    Cardinality({r \in W : r.telegram_id = u /\ r.channel_name = c}) > 0

MemRows(M, u, c) == {r \in M : r.telegram_id = u /\ r.channel_name = c}

MemRow(u, c, banned, wl, banned_at, verified) ==
    [telegram_id |-> u, channel_name |-> c, is_banned |-> banned,
     is_whitelisted |-> wl, banned_at |-> banned_at, last_verified |-> verified]

NULL == -1

\* variant: the UPDATE sets banned_at only when banning and leaves the stored
\* time when the flag is cleared
set_user_banned_write_KeepAt(M, u, c, banned, wl, at) ==
    (M \ MemRows(M, u, c))
        \cup {MemRow(u, c, banned, wl,
                     IF banned THEN at
                     ELSE IF MemRows(M, u, c) = {} THEN NULL
                     ELSE (CHOOSE m \in MemRows(M, u, c) : TRUE).banned_at,
                     at)}

\* set_user_banned, second statement: INSERT ... ON CONFLICT DO UPDATE with
\* the whitelist flag read by the first statement and the time taken before it
set_user_banned_write(M, u, c, banned, wl, at) ==
    (M \ MemRows(M, u, c))
        \cup {MemRow(u, c, banned, wl, IF banned THEN at ELSE NULL, at)}

\* The row of a sweep's snapshot
Snap(r, wl, banned) ==
    [telegram_id |-> r.telegram_id, channel_name |-> r.channel_name,
     is_active |-> r.is_active, end_date |-> r.end_date,
     is_whitelisted |-> wl, is_banned |-> banned]

Orders(R) ==
    {s \in [1..Cardinality(R) -> R] : \A i, j \in DOMAIN s : i # j => s[i] # s[j]}

\* variant: WHERE end_date < now, whatever is_active
get_expired_subscriptions_Ended(S, t) ==
    LET R == {Snap(r, FALSE, FALSE) : r \in {x \in S : x.end_date < t}}
    IN  {s \in Orders(R) : \A i, j \in DOMAIN s : i < j => s[i].end_date <= s[j].end_date}

\* get_expired_subscriptions: WHERE is_active = TRUE AND end_date < now
\* ORDER BY end_date ASC; rows of equal end_date come in any order.
get_expired_subscriptions(S, t) ==
    LET R == {Snap(r, FALSE, FALSE) : r \in {x \in S : x.is_active /\ x.end_date < t}}
    IN  {s \in Orders(R) : \A i, j \in DOMAIN s : i < j => s[i].end_date <= s[j].end_date}

ChannelRank(c) == IF c = "channel_1" THEN 1 ELSE 2

\* variant: no join with channel_memberships, is_banned is FALSE in every row
get_all_users_for_verification_NoFlag(S, W, M) ==
    LET R == {Snap(r, is_whitelisted(W, r.telegram_id, r.channel_name), FALSE) : r \in S}
    IN  CHOOSE s \in Orders(R) :
            \A i, j \in DOMAIN s : i < j =>
                \/ s[i].telegram_id < s[j].telegram_id
                \/ /\ s[i].telegram_id = s[j].telegram_id
                   /\ ChannelRank(s[i].channel_name) <= ChannelRank(s[j].channel_name)

\* variant: JOIN channel_memberships instead of LEFT JOIN
get_all_users_for_verification_Inner(S, W, M) ==
    LET R == {Snap(r, is_whitelisted(W, r.telegram_id, r.channel_name),
                   \E m \in MemRows(M, r.telegram_id, r.channel_name) : m.is_banned)
              : r \in {x \in S : MemRows(M, x.telegram_id, x.channel_name) # {}}}
    IN  CHOOSE s \in Orders(R) :
            \A i, j \in DOMAIN s : i < j =>
                \/ s[i].telegram_id < s[j].telegram_id
                \/ /\ s[i].telegram_id = s[j].telegram_id
                   /\ ChannelRank(s[i].channel_name) <= ChannelRank(s[j].channel_name)

\* get_all_users_for_verification: every subscription row joined with the
\* whitelist and with channel_memberships (COALESCE(is_banned, FALSE)),
\* ORDER BY telegram_id, channel_name
get_all_users_for_verification(S, W, M) ==
    LET R == {Snap(r, is_whitelisted(W, r.telegram_id, r.channel_name),
                   \E m \in MemRows(M, r.telegram_id, r.channel_name) : m.is_banned)
              : r \in S}
    IN  CHOOSE s \in Orders(R) :
            \A i, j \in DOMAIN s : i < j =>
                \/ s[i].telegram_id < s[j].telegram_id
                \/ /\ s[i].telegram_id = s[j].telegram_id
                   /\ ChannelRank(s[i].channel_name) <= ChannelRank(s[j].channel_name)

\* ------------------------------------------------------------ sweeps: frames
IdleJob ==
    [pc |-> "idle", kind |-> "-", todo |-> <<>>, val |-> FALSE, wl |-> FALSE,
     at |-> NULL, onfail |-> "-", next |-> "-", error |-> FALSE]

\* the exception leaves the sweep
JobAbort == job' = [job EXCEPT !.pc = "end", !.error = TRUE]

\* the loop goes on with the next row of the snapshot, or the sweep returns
JobAdvance ==
    job' = [job EXCEPT !.todo = Tail(job.todo),
                       !.pc = IF Tail(job.todo) = <<>> THEN "end" ELSE "row"]

\* await db.set_user_banned(user_id, channel_name, v) is entered
JobSetBanned(v, onfail, next) ==
    job' = [job EXCEPT !.pc = "sb_read", !.val = v, !.onfail = onfail, !.next = next]

JobStart(kind) ==
    /\ job.pc = "idle"
    /\ job' = [IdleJob EXCEPT !.pc = "select", !.kind = kind]
    /\ chat' = <<>>
    /\ UNCHANGED <<now, db, web, adm>>

\* check_expired_subscriptions, lines 43-49
SweepSelect(ok) ==
    /\ job.pc = "select" /\ job.kind = "periodic"
    /\ IF ~ok THEN JobAbort
       ELSE \E s \in get_expired_subscriptions(subs, now) :
               job' = [job EXCEPT !.todo = s,
                                  !.pc = IF s = <<>> THEN "end" ELSE "row"]
    /\ chat' = <<>>
    /\ UNCHANGED <<now, db, web, adm>>

\* Lines 51-76: the row is skipped when it has not ended, or when
\* deactivate_subscription raises
SweepRow(ok) ==
    LET r == Head(job.todo) IN
    /\ job.pc = "row" /\ job.kind = "periodic"
    /\ IF r.end_date > now \/ ~ok
       THEN subs' = subs /\ JobAdvance
       ELSE /\ subs' = deactivate_subscription(subs, r.telegram_id, r.channel_name)
            /\ job' = [job EXCEPT !.pc = "checkwl"]
    /\ chat' = <<>>
    /\ UNCHANGED <<now, users, payments, reminders, whitelist, memberships, web, adm>>

\* Lines 79-85: db.is_whitelisted is outside every try
SweepCheckWl(ok) ==
    LET r == Head(job.todo) IN
    /\ job.pc = "checkwl"
    /\ IF ~ok THEN JobAbort
       ELSE IF is_whitelisted(whitelist, r.telegram_id, r.channel_name)
       THEN JobSetBanned(FALSE, "abort", "row")
       ELSE job' = [job EXCEPT !.pc = "ban"]
    /\ chat' = <<>>
    /\ UNCHANGED <<now, db, web, adm>>

\* verify_all_subscriptions_on_startup, line 115
StartupSelect(ok) ==
    /\ job.pc = "select" /\ job.kind = "startup"
    /\ IF ~ok THEN JobAbort
       ELSE LET s == get_all_users_for_verification(subs, whitelist, memberships)
            IN  job' = [job EXCEPT !.todo = s,
                                   !.pc = IF s = <<>> THEN "end" ELSE "row"]
    /\ chat' = <<>>
    /\ UNCHANGED <<now, db, web, adm>>

\* variant: set_user_banned is called for every row, also when the stored
\* flag already is what the row asks for
StartupRow_Always ==
    LET r == Head(job.todo)
        subscription_valid == r.is_active /\ r.end_date > now
        should_be_in_channel == subscription_valid \/ r.is_whitelisted
    IN  /\ job.pc = "row" /\ job.kind = "startup"
        /\ IF should_be_in_channel THEN JobSetBanned(FALSE, "abort", "row")
           ELSE IF r.is_banned THEN JobSetBanned(TRUE, "abort", "row")
           ELSE job' = [job EXCEPT !.pc = "ban"]
        /\ chat' = <<>>
        /\ UNCHANGED <<now, db, web, adm>>

\* variant: a pair found eligible but recorded banned is unbanned in the chat
StartupRow_Unban ==
    LET r == Head(job.todo)
        subscription_valid == r.is_active /\ r.end_date > now
        should_be_in_channel == subscription_valid \/ r.is_whitelisted
    IN  /\ job.pc = "row" /\ job.kind = "startup"
        /\ IF should_be_in_channel
           THEN IF r.is_banned
                THEN /\ JobSetBanned(FALSE, "abort", "row")
                     /\ chat' = <<Call("unban", r.telegram_id, r.channel_name, TRUE)>>
                ELSE JobAdvance /\ chat' = <<>>
           ELSE /\ IF r.is_banned THEN JobAdvance ELSE job' = [job EXCEPT !.pc = "ban"]
                /\ chat' = <<>>
        /\ UNCHANGED <<now, db, web, adm>>

\* Lines 122-157: what the snapshot row asks for
StartupRow ==
    LET r == Head(job.todo)
        subscription_valid == r.is_active /\ r.end_date > now
        should_be_in_channel == subscription_valid \/ r.is_whitelisted
    IN  /\ job.pc = "row" /\ job.kind = "startup"
        /\ IF should_be_in_channel
           THEN IF r.is_banned THEN JobSetBanned(FALSE, "abort", "row") ELSE JobAdvance
           ELSE IF r.is_banned THEN JobAdvance ELSE job' = [job EXCEPT !.pc = "ban"]
        /\ chat' = <<>>
        /\ UNCHANGED <<now, db, web, adm>>

\* variant: a failing ban_chat_member is logged and the row is left
JobBan_Skip(ok) ==
    LET r == Head(job.todo) IN
    /\ job.pc = "ban"
    /\ chat' = <<Call("ban", r.telegram_id, r.channel_name, ok)>>
    /\ IF ok THEN JobSetBanned(TRUE, "retry", "msg") ELSE JobAdvance
    /\ UNCHANGED <<now, db, web, adm>>

\* bot.ban_chat_member, and set_user_banned(True) in the try or in the except
JobBan(ok) ==
    LET r == Head(job.todo) IN
    /\ job.pc = "ban"
    /\ chat' = <<Call("ban", r.telegram_id, r.channel_name, ok)>>
    /\ IF ok THEN JobSetBanned(TRUE, "retry", "msg")
       ELSE JobSetBanned(TRUE, "abort", "row")
    /\ UNCHANGED <<now, db, web, adm>>

\* an exception of set_user_banned: caught when raised in the try around
\* ban_chat_member (the except calls set_user_banned(True) again)
JobSbFail ==
    IF job.onfail = "retry" THEN JobSetBanned(TRUE, "abort", "row") ELSE JobAbort

\* set_user_banned, lines 571-573: now, then the whitelist read
JobSbRead(ok) ==
    LET r == Head(job.todo) IN
    /\ job.pc = "sb_read"
    /\ IF ~ok THEN JobSbFail
       ELSE job' = [job EXCEPT !.pc = "sb_write", !.at = now,
                       !.wl = is_whitelisted(whitelist, r.telegram_id, r.channel_name)]
    /\ chat' = <<>>
    /\ UNCHANGED <<now, db, web, adm>>

\* set_user_banned, lines 575-584
JobSbWrite(ok) ==
    LET r == Head(job.todo) IN
    /\ job.pc = "sb_write"
    /\ IF ~ok THEN memberships' = memberships /\ JobSbFail
       ELSE /\ memberships' = set_user_banned_write(memberships, r.telegram_id,
                                  r.channel_name, job.val, job.wl, job.at)
            /\ IF job.next = "msg" THEN job' = [job EXCEPT !.pc = "msg"] ELSE JobAdvance
    /\ chat' = <<>>
    /\ UNCHANGED <<now, users, subs, payments, reminders, whitelist, web, adm>>

\* the "subscription ended" message; its failure is logged
JobMsg(ok) ==
    LET r == Head(job.todo) IN
    /\ job.pc = "msg"
    /\ chat' = <<Call("send_ended", r.telegram_id, r.channel_name, ok)>>
    /\ JobAdvance
    /\ UNCHANGED <<now, db, web, adm>>

JobReturn ==
    /\ job.pc = "end"
    /\ job' = IdleJob
    /\ chat' = <<>>
    /\ UNCHANGED <<now, db, web, adm>>

\* the steps of check_expired_subscriptions
SweepPeriodic(B) ==
    \E ok \in B :
        \/ SweepSelect(ok)
        \/ SweepRow(ok)
        \/ SweepCheckWl(ok)

\* the steps of verify_all_subscriptions_on_startup
SweepStartup(B) ==
    \/ \E ok \in B : StartupSelect(ok)
    \/ StartupRow

\* the steps both sweeps share
SweepBan(B) ==
    \/ \E ok \in B :
          \/ JobBan(ok)
          \/ JobSbRead(ok)
          \/ JobSbWrite(ok)
          \/ JobMsg(ok)
    \/ JobReturn

\* ------------------------------------------------- whitelist: the ledger
IdleAdm ==
    [pc |-> "idle", uid |-> 0, ch |-> "-", ids |-> <<>>, gift |-> <<>>,
     start |-> NULL, existing |-> FALSE, at |-> NULL, error |-> FALSE]

\* the exception leaves the operation
AdmAbort == adm' = [adm EXCEPT !.pc = "end", !.error = TRUE]

\* add_whitelist_user, lines 472-476: INSERT INTO users ... DO NOTHING
WlAddUser(u, c, ok) ==
    /\ adm.pc = "idle"
    /\ IF ok
       THEN /\ users' = add_user(users, u)
            /\ adm' = [IdleAdm EXCEPT !.pc = "wl_insert", !.uid = u, !.ch = c]
       ELSE UNCHANGED <<users, adm>>
    /\ chat' = <<>>
    /\ UNCHANGED <<now, subs, payments, reminders, whitelist, memberships, web, job>>

\* Lines 479-486: INSERT INTO whitelist ... DO NOTHING, then now
WlInsert(ok) ==
    /\ adm.pc = "wl_insert"
    /\ IF ok
       THEN /\ whitelist' = whitelist \cup {[telegram_id |-> adm.uid, channel_name |-> adm.ch]}
            /\ adm' = [adm EXCEPT !.pc = "wl_member", !.at = now]
       ELSE whitelist' = whitelist /\ adm' = IdleAdm
    /\ chat' = <<>>
    /\ UNCHANGED <<now, users, subs, payments, reminders, memberships, web, job>>

\* Lines 487-496: the membership row is whitelisted and not banned
WlMember(ok) ==
    /\ adm.pc = "wl_member"
    /\ memberships' =
          IF ok THEN (memberships \ MemRows(memberships, adm.uid, adm.ch))
                        \cup {MemRow(adm.uid, adm.ch, FALSE, TRUE, NULL, adm.at)}
          ELSE memberships
    /\ adm' = IdleAdm
    /\ chat' = <<>>
    /\ UNCHANGED <<now, users, subs, payments, reminders, whitelist, web, job>>

\* remove_whitelist_user, lines 506-512: DELETE FROM whitelist, then now
WlDelete(u, c, ok) ==
    /\ adm.pc = "idle"
    /\ IF ok
       THEN /\ whitelist' = {r \in whitelist : ~(r.telegram_id = u /\ r.channel_name = c)}
            /\ adm' = [IdleAdm EXCEPT !.pc = "wl_unmember", !.uid = u, !.ch = c, !.at = now]
       ELSE UNCHANGED <<whitelist, adm>>
    /\ chat' = <<>>
    /\ UNCHANGED <<now, users, subs, payments, reminders, memberships, web, job>>

\* Lines 513-517: UPDATE channel_memberships SET is_whitelisted = FALSE
WlUnmember(ok) ==
    /\ adm.pc = "wl_unmember"
    /\ memberships' =
          IF ok THEN {IF r \in MemRows(memberships, adm.uid, adm.ch)
                      THEN [r EXCEPT !.is_whitelisted = FALSE, !.last_verified = adm.at]
                      ELSE r : r \in memberships}
          ELSE memberships
    /\ adm' = IdleAdm
    /\ chat' = <<>>
    /\ UNCHANGED <<now, users, subs, payments, reminders, whitelist, web, job>>

\* the later statements of a running whitelist operation
WhitelistAdd(B) ==
    \E ok \in B :
        \/ WlInsert(ok)
        \/ WlMember(ok)

WhitelistRemove(B) == \E ok \in B : WlUnmember(ok)

AdmReturn ==
    /\ adm.pc = "end"
    /\ adm' = IdleAdm
    /\ chat' = <<>>
    /\ UNCHANGED <<now, db, web, job>>

\* ------------------------------------------------------- cmd_import_users
mark_gift_received(U, u) ==
    {IF r.telegram_id = u THEN [r EXCEPT !.gift_received = TRUE] ELSE r : r \in U}

\* variant: DO UPDATE SET reminder_date only
create_reminder_KeepSent(R, u, c, date) ==
    LET old == {r \in R : r.telegram_id = u /\ r.channel_name = c}
    IN  (R \ old)
        \cup {[telegram_id |-> u, channel_name |-> c, reminder_date |-> date,
               reminder_sent |-> \E r \in old : r.reminder_sent]}

\* INSERT INTO reminders ... ON CONFLICT (telegram_id, channel_name) DO UPDATE
create_reminder(R, u, c, date) ==
    {r \in R : ~(r.telegram_id = u /\ r.channel_name = c)}
        \cup {[telegram_id |-> u, channel_name |-> c, reminder_date |-> date,
               reminder_sent |-> FALSE]}

\* the identifiers of the command, all numeric
ImportStart(ids) ==
    /\ adm.pc = "idle"
    /\ adm' = [IdleAdm EXCEPT !.pc = "imp_scan", !.ids = ids]
    /\ chat' = <<>>
    /\ UNCHANGED <<now, db, web, job>>

\* the loop entered with the next user of users_to_gift, or the end
ImportNext(f, gift) ==
    IF gift = <<>> THEN [f EXCEPT !.pc = "end", !.gift = gift]
    ELSE [f EXCEPT !.pc = "imp_select", !.gift = gift, !.uid = Head(gift),
                   !.ch = "channel_1", !.start = now]

\* import_users_from_masterclass, one identifier, line 212: get_user; a user
\* without a row goes on to add_user, a user with a row is listed when no
\* gift has been received
ImportScan(ok) ==
    LET u == Head(adm.ids)
        user == get_user(u)
        eligible == \E r \in user : ~r.gift_received
        gift == IF eligible THEN Append(adm.gift, u) ELSE adm.gift
        f == [adm EXCEPT !.ids = Tail(adm.ids)]
    IN  /\ adm.pc = "imp_scan"
        /\ IF ~ok THEN AdmAbort
           ELSE IF user = {} THEN adm' = [adm EXCEPT !.pc = "imp_add"]
           ELSE adm' = IF Tail(adm.ids) = <<>> THEN ImportNext(f, gift)
                       ELSE [f EXCEPT !.gift = gift]
        /\ chat' = <<>>
        /\ UNCHANGED <<now, db, web, job>>

\* import_users_from_masterclass, line 216: add_user for the identifier that
\* had no row when get_user ran, and the identifier is listed
ImportAddUser(ok) ==
    LET u == Head(adm.ids)
        gift == Append(adm.gift, u)
        f == [adm EXCEPT !.ids = Tail(adm.ids), !.pc = "imp_scan"]
    IN  /\ adm.pc = "imp_add"
        /\ IF ~ok THEN users' = users /\ AdmAbort
           ELSE /\ users' = add_user(users, u)
                /\ adm' = IF Tail(adm.ids) = <<>> THEN ImportNext(f, gift)
                          ELSE [f EXCEPT !.gift = gift]
        /\ chat' = <<>>
        /\ UNCHANGED <<now, subs, payments, reminders, whitelist, memberships, web, job>>

\* create_subscription of the gift, first statement
ImportSelect(ok) ==
    /\ adm.pc = "imp_select"
    /\ IF ok
       THEN adm' = [adm EXCEPT !.pc = "imp_write",
                               !.existing = SubRows(subs, adm.uid, adm.ch) # {}]
       ELSE AdmAbort
    /\ chat' = <<>>
    /\ UNCHANGED <<now, db, web, job>>

\* create_subscription of the gift, second statement
ImportWrite(ok) ==
    LET res == create_subscription_write(subs, adm.existing, adm.uid, adm.ch, "gift",
                                         adm.start, adm.start + FREE_TRIAL_DAYS, TRUE)
    IN  /\ adm.pc = "imp_write"
        /\ IF ok /\ ~res[2]
           THEN subs' = res[1] /\ adm' = [adm EXCEPT !.pc = "imp_mark"]
           ELSE subs' = subs /\ AdmAbort
        /\ chat' = <<>>
        /\ UNCHANGED <<now, users, payments, reminders, whitelist, memberships, web, job>>

ImportMark(ok) ==
    /\ adm.pc = "imp_mark"
    /\ IF ok
       THEN users' = mark_gift_received(users, adm.uid) /\ adm' = [adm EXCEPT !.pc = "imp_remind"]
       ELSE users' = users /\ AdmAbort
    /\ chat' = <<>>
    /\ UNCHANGED <<now, subs, payments, reminders, whitelist, memberships, web, job>>

\* Lines 358-359: the reminder three days before the end of the trial
ImportRemind(ok) ==
    /\ adm.pc = "imp_remind"
    /\ IF ok
       THEN /\ reminders' = create_reminder(reminders, adm.uid, adm.ch,
                                            adm.start + (FREE_TRIAL_DAYS - 3))
            /\ adm' = [adm EXCEPT !.pc = "imp_chat"]
       ELSE reminders' = reminders /\ AdmAbort
    /\ chat' = <<>>
    /\ UNCHANGED <<now, users, subs, payments, whitelist, memberships, web, job>>

\* Line 364: bot.unban_chat_member; its exception is caught by the outer
\* except (line 409), which sends the message without the link
ImportUnban(ok) ==
    /\ adm.pc = "imp_chat"
    /\ chat' = <<Call("unban", adm.uid, adm.ch, ok)>>
    /\ adm' = [adm EXCEPT !.pc = IF ok THEN "imp_getchat" ELSE "imp_fallback"]
    /\ UNCHANGED <<now, db, web, job>>

\* Line 370: bot.get_chat; a channel with a username has a public link, a
\* private one gets an invite link, and after an exception the invite link
\* is created in the except branch
ImportGetChat(ok, public) ==
    /\ adm.pc = "imp_getchat"
    /\ chat' = <<Call("get_chat", adm.uid, adm.ch, ok)>>
    /\ adm' = [adm EXCEPT !.pc = IF ~ok THEN "imp_invite2"
                                 ELSE IF public THEN "imp_send" ELSE "imp_invite"]
    /\ UNCHANGED <<now, db, web, job>>

\* Lines 376-380: bot.create_chat_invite_link in the try; its exception leads
\* to the except branch, which creates the link again
ImportInvite(ok) ==
    /\ adm.pc = "imp_invite"
    /\ chat' = <<Call("invite", adm.uid, adm.ch, ok)>>
    /\ adm' = [adm EXCEPT !.pc = IF ok THEN "imp_send" ELSE "imp_invite2"]
    /\ UNCHANGED <<now, db, web, job>>

\* Lines 385-392: bot.create_chat_invite_link in the except branch; its
\* exception is passed over and the message goes out without a link
ImportInviteAgain(ok) ==
    /\ adm.pc = "imp_invite2"
    /\ chat' = <<Call("invite", adm.uid, adm.ch, ok)>>
    /\ adm' = [adm EXCEPT !.pc = "imp_send"]
    /\ UNCHANGED <<now, db, web, job>>

\* Lines 404-408: the gift message; its exception is caught by the outer
\* except, which sends the message again
ImportSend(ok) ==
    /\ adm.pc = "imp_send"
    /\ chat' = <<Call("send_gift", adm.uid, adm.ch, ok)>>
    /\ adm' = IF ok THEN ImportNext(adm, Tail(adm.gift))
              ELSE [adm EXCEPT !.pc = "imp_fallback"]
    /\ UNCHANGED <<now, db, web, job>>

\* Lines 412-419: the gift message with the main menu; its exception is
\* printed
ImportFallback(ok) ==
    /\ adm.pc = "imp_fallback"
    /\ chat' = <<Call("send_gift", adm.uid, adm.ch, ok)>>
    /\ adm' = ImportNext(adm, Tail(adm.gift))
    /\ UNCHANGED <<now, db, web, job>>

\* Lines 362-421: the chat block of one gift; C holds the outcomes of its
\* Bot API calls
ImportChat(C) ==
    \E ok \in C :
        \/ ImportUnban(ok)
        \/ \E public \in BOOLEAN : ImportGetChat(ok, public)
        \/ ImportInvite(ok)
        \/ ImportInviteAgain(ok)
        \/ ImportSend(ok)
        \/ ImportFallback(ok)

\* the steps of a running import; B holds the outcomes of its store calls
\* and C those of its Bot API calls
Import(B, C) ==
    \/ AdmReturn
    \/ \E ok \in B :
          \/ ImportScan(ok)
          \/ ImportAddUser(ok)
          \/ ImportSelect(ok)
          \/ ImportWrite(ok)
          \/ ImportMark(ok)
          \/ ImportRemind(ok)
    \/ ImportChat(C)

\* the batches of an import command
Batches == {<<u>> : u \in Users} \cup {<<u, v>> : u, v \in Users}

\* -------------------------------------------------------- check_reminders
\* get_pending_reminders: WHERE reminder_sent = FALSE AND reminder_date <= now,
\* no ORDER BY: the rows come in any order.
get_pending_reminders(R, t) ==
    Orders({r \in R : ~r.reminder_sent /\ r.reminder_date <= t})

\* UPDATE reminders SET reminder_sent = TRUE WHERE telegram_id, channel_name
mark_reminder_sent(R, u, c) ==
    {IF r.telegram_id = u /\ r.channel_name = c
     THEN [r EXCEPT !.reminder_sent = TRUE] ELSE r : r \in R}

\* SELECT * FROM subscriptions WHERE telegram_id, channel_name, is_active
get_active_subscription(S, u, c) == {x \in SubRows(S, u, c) : x.is_active}

\* db.create_reminder called for a pair and a date: the row is written when
\* the user is in the users table (the foreign key), else the call raises.
\* existing: the row the statement replaced had been sent.
Schedule(u, c, date, ok) ==
    /\ adm.pc = "idle"
    /\ IF ok /\ get_user(u) # {}
       THEN /\ reminders' = create_reminder(reminders, u, c, date)
            /\ adm' = [IdleAdm EXCEPT !.pc = "end", !.uid = u, !.ch = c, !.start = date,
                          !.existing = \E r \in reminders :
                              r.telegram_id = u /\ r.channel_name = c /\ r.reminder_sent]
       ELSE /\ reminders' = reminders
            /\ adm' = [IdleAdm EXCEPT !.pc = "end", !.uid = u, !.ch = c, !.start = date,
                          !.error = TRUE]
    /\ chat' = <<>>
    /\ UNCHANGED <<now, users, subs, payments, whitelist, memberships, web, job>>

\* Line 16: reminders = await db.get_pending_reminders()
RemSelect(ok) ==
    /\ job.pc = "select" /\ job.kind = "reminders"
    /\ IF ~ok THEN JobAbort
       ELSE \E s \in get_pending_reminders(reminders, now) :
               job' = [job EXCEPT !.todo = s,
                                  !.pc = IF s = <<>> THEN "end" ELSE "row"]
    /\ chat' = <<>>
    /\ UNCHANGED <<now, db, web, adm>>

\* variant: no "if subscription:", the reminder is sent for every row
RemRow_Always(ok) ==
    /\ job.pc = "row" /\ job.kind = "reminders"
    /\ IF ~ok THEN JobAbort ELSE job' = [job EXCEPT !.pc = "send"]
    /\ chat' = <<>>
    /\ UNCHANGED <<now, db, web, adm>>

\* Lines 18-24: db.get_active_subscription, outside the try, and the
\* "if subscription:" that skips the row when there is none
RemRow(ok) ==
    LET r == Head(job.todo) IN
    /\ job.pc = "row" /\ job.kind = "reminders"
    /\ IF ~ok THEN JobAbort
       ELSE IF get_active_subscription(subs, r.telegram_id, r.channel_name) = {}
       THEN JobAdvance
       ELSE job' = [job EXCEPT !.pc = "send"]
    /\ chat' = <<>>
    /\ UNCHANGED <<now, db, web, adm>>

\* variant: the exception of send_message leaves check_reminders
RemSend_Raise(ok) ==
    LET r == Head(job.todo) IN
    /\ job.pc = "send"
    /\ chat' = <<Call("send_reminder", r.telegram_id, r.channel_name, ok)>>
    /\ IF ok THEN job' = [job EXCEPT !.pc = "mark"] ELSE JobAbort
    /\ UNCHANGED <<now, db, web, adm>>

\* Lines 30-36: bot.send_message; its exception is logged at line 38
RemSend(ok) ==
    LET r == Head(job.todo) IN
    /\ job.pc = "send"
    /\ chat' = <<Call("send_reminder", r.telegram_id, r.channel_name, ok)>>
    /\ IF ok THEN job' = [job EXCEPT !.pc = "mark"] ELSE JobAdvance
    /\ UNCHANGED <<now, db, web, adm>>

\* Line 36: db.mark_reminder_sent, inside the same try: its exception is
\* logged at line 38 as well
RemMark(ok) ==
    LET r == Head(job.todo) IN
    /\ job.pc = "mark"
    /\ reminders' = IF ok THEN mark_reminder_sent(reminders, r.telegram_id, r.channel_name)
                    ELSE reminders
    /\ JobAdvance
    /\ chat' = <<>>
    /\ UNCHANGED <<now, users, subs, payments, whitelist, memberships, web, adm>>

\* the steps of check_reminders
Remind(B) ==
    \E ok \in B :
        \/ RemSelect(ok)
        \/ RemRow(ok)
        \/ RemSend(ok)
        \/ RemMark(ok)

\* remove_user_from_channel (handlers.py): bot.ban_chat_member; its exception
\* is printed.  Nothing is written.
remove_user_from_channel(u, c, ok) ==
    /\ chat' = <<Call("ban", u, c, ok)>>
    /\ UNCHANGED <<now, db, procs>>

\* ------------------------------------------------- kick_unauthorized_user
\* kick_unauthorized_user(bot, user_id, channel_name, channel_id) is called
KickStart(u, c) ==
    /\ job.pc = "idle"
    /\ job' = [IdleJob EXCEPT !.pc = "kick_row", !.kind = "kick",
                              !.todo = <<[telegram_id |-> u, channel_name |-> c]>>]
    /\ chat' = <<>>
    /\ UNCHANGED <<now, db, web, adm>>

\* Lines 216-219: db.get_active_subscription; with a row the pair is
\* recorded not banned and the function returns False
KickRow(ok) ==
    LET r == Head(job.todo) IN
    /\ job.pc = "kick_row"
    /\ IF ~ok THEN JobAbort
       ELSE IF get_active_subscription(subs, r.telegram_id, r.channel_name) # {}
       THEN JobSetBanned(FALSE, "abort", "False")
       ELSE job' = [job EXCEPT !.pc = "kick_wl"]
    /\ chat' = <<>>
    /\ UNCHANGED <<now, db, web, adm>>

\* Lines 222-226: db.is_whitelisted
KickCheckWl(ok) ==
    LET r == Head(job.todo) IN
    /\ job.pc = "kick_wl"
    /\ IF ~ok THEN JobAbort
       ELSE IF is_whitelisted(whitelist, r.telegram_id, r.channel_name)
       THEN JobSetBanned(FALSE, "abort", "False")
       ELSE job' = [job EXCEPT !.pc = "kick_ban"]
    /\ chat' = <<>>
    /\ UNCHANGED <<now, db, web, adm>>

\* Lines 229-237: bot.ban_chat_member, then set_user_banned(True) and return
\* True in the try, or set_user_banned(True) and return False in the except
KickBan(ok) ==
    LET r == Head(job.todo) IN
    /\ job.pc = "kick_ban"
    /\ chat' = <<Call("ban", r.telegram_id, r.channel_name, ok)>>
    /\ IF ok THEN JobSetBanned(TRUE, "retry", "True")
       ELSE JobSetBanned(TRUE, "abort", "False")
    /\ UNCHANGED <<now, db, web, adm>>

\* the steps of kick_unauthorized_user; those of set_user_banned are
\* JobSbRead and JobSbWrite
Kick(B) ==
    \E ok \in B :
        \/ KickRow(ok)
        \/ KickCheckWl(ok)
        \/ KickBan(ok)
        \/ JobSbRead(ok)
        \/ JobSbWrite(ok)

\* ------------------------------------------------------ the process stops
\* check_expired_subscriptions has deactivated the row in hand and the
\* process stops before ban_chat_member: the sweep is gone, the store stays.
Crash ==
    /\ job.kind = "periodic" /\ job.pc \in {"checkwl", "ban"}
    /\ job' = IdleJob
    /\ chat' = <<>>
    /\ UNCHANGED <<now, db, web, adm>>

AllIdle == (\A w \in Web : web[w].pc = "idle") /\ job.pc = "idle" /\ adm.pc = "idle"

\* ------------------------------------------------------------ specification
Init ==
    /\ now = 0
    /\ users = {} /\ subs = {} /\ payments = {} /\ reminders = {}
    /\ whitelist = {} /\ memberships = {}
    /\ chat = <<>>
    /\ web = [w \in Web |-> IdleWeb]
    /\ job = IdleJob
    /\ adm = IdleAdm

\* The payment flow: users, invoices, notifications and the clock
Next ==
    \/ Tick
    \/ AllIdle /\ \E u \in Users : cmd_start(u)
    \/ AllIdle /\ \E u \in Users, c \in Channels, inv \in InvIds : callback_payment(u, c, inv)
    \/ AllIdle /\ \E ev \in Events, ok \in BOOLEAN : ConfirmLookup("w1", ev, ok)
    \/ Confirm("w1", BOOLEAN)

Spec == Init /\ [][Next]_vars

\* The notifications Robokassa sends for the invoices it was paid
Genuine ==
    {Notification(r.payment_id, 100 * r.amount, Password2(r.channel_name), r.telegram_id)
        : r \in payments}

\* Every operation that writes subscriptions or payments, one at a time; the
\* clock stands still while an operation runs.
NextLedger ==
    \/ AllIdle /\ Tick
    \/ AllIdle /\ \E u \in Users, c \in Channels, inv \in InvIds : callback_payment(u, c, inv)
    \/ AllIdle /\ \E ev \in Genuine, ok \in BOOLEAN : ConfirmLookup("w1", ev, ok)
    \/ Confirm("w1", BOOLEAN)
    \/ AllIdle /\ \E ids \in Batches : ImportStart(ids)
    \/ Import(BOOLEAN, BOOLEAN)
    \/ AllIdle /\ JobStart("periodic")
    \/ SweepPeriodic(BOOLEAN)
    \/ SweepBan(BOOLEAN)

SpecLedger == Init /\ [][NextLedger]_vars

\* The sweeps and the whitelist, over the subscriptions that
\* process_payment_success grants; the store and the chat fail under the
\* sweeps and under add_whitelist_user, and the clock stands still while an
\* operation runs.
NextSweep ==
    \/ AllIdle /\ Tick
    \/ AllIdle /\ \E u \in Users : cmd_start(u)
    \/ AllIdle /\ \E u \in Users, c \in Channels : process_payment_success("w1", u, c)
    \/ Process("w1", {TRUE})
    \/ AllIdle /\ \E u \in Users, c \in Channels : WlAddUser(u, c, TRUE)
    \/ WhitelistAdd(BOOLEAN)
    \/ AllIdle /\ \E k \in {"periodic", "startup"} : JobStart(k)
    \/ SweepPeriodic(BOOLEAN)
    \/ SweepStartup(BOOLEAN)
    \/ SweepBan(BOOLEAN)

SpecSweep == Init /\ [][NextSweep]_vars

\* A delivery and the periodic sweep, each started while the other runs;
\* every call returns and the clock stands still while an operation runs.
NextRace ==
    \/ AllIdle /\ Tick
    \/ AllIdle /\ \E u \in Users : cmd_start(u)
    \/ AllIdle /\ \E u \in Users, c \in Channels, inv \in InvIds : callback_payment(u, c, inv)
    \/ \E ev \in Genuine : ConfirmLookup("w1", ev, TRUE)
    \/ Confirm("w1", {TRUE})
    \/ JobStart("periodic")
    \/ SweepPeriodic({TRUE})
    \/ SweepBan({TRUE})

SpecRace == Init /\ [][NextRace]_vars

\* Two deliveries, each started while the other runs; every call returns.
NextOverlap ==
    \/ AllIdle /\ Tick
    \/ AllIdle /\ \E u \in Users : cmd_start(u)
    \/ AllIdle /\ \E u \in Users, c \in Channels, inv \in InvIds : callback_payment(u, c, inv)
    \/ \E w \in Web, ev \in Genuine : ConfirmLookup(w, ev, TRUE)
    \/ \E w \in Web : Confirm(w, {TRUE})

SpecOverlap == Init /\ [][NextOverlap]_vars

\* Reminders: grants, the periodic sweep that ends them, create_reminder
\* called for a pair and a date, and check_reminders; the chat and the
\* reminder store fail, and the clock stands still while an operation runs.
NextRemind ==
    \/ AllIdle /\ Tick
    \/ AllIdle /\ \E u \in Users : cmd_start(u)
    \/ AllIdle /\ \E u \in Users, c \in Channels : process_payment_success("w1", u, c)
    \/ Process("w1", {TRUE})
    \/ AllIdle /\ JobStart("periodic")
    \/ SweepPeriodic({TRUE})
    \/ SweepBan({TRUE})
    \/ AllIdle /\ \E u \in Users, c \in Channels, d \in 0..MaxTime, ok \in BOOLEAN :
                     Schedule(u, c, d, ok)
    \/ AdmReturn
    \/ AllIdle /\ JobStart("reminders")
    \/ Remind(BOOLEAN)

SpecRemind == Init /\ [][NextRemind]_vars

\* The signature check: invoices, and requests whose parameters arrive in
\* any order under signatures of every kind; every call returns.
NextSig ==
    \/ AllIdle /\ \E u \in Users : cmd_start(u)
    \/ AllIdle /\ \E u \in Users, c \in Channels, inv \in InvIds : callback_payment(u, c, inv)
    \/ \E ev \in EventsSig : ConfirmLookup("w1", ev, TRUE)
    \/ Confirm("w1", {TRUE})

SpecSig == Init /\ [][NextSig]_vars

\* kick_unauthorized_user called for any pair at any time, over grants and
\* whitelist entries; its store and chat calls fail, and the clock stands
\* still while an operation runs.
NextKick ==
    \/ AllIdle /\ Tick
    \/ AllIdle /\ \E u \in Users : cmd_start(u)
    \/ AllIdle /\ \E u \in Users, c \in Channels : process_payment_success("w1", u, c)
    \/ Process("w1", {TRUE})
    \/ AllIdle /\ \E u \in Users, c \in Channels : WlAddUser(u, c, TRUE)
    \/ WhitelistAdd({TRUE})
    \/ AllIdle /\ \E u \in Users, c \in Channels : KickStart(u, c)
    \/ Kick(BOOLEAN)
    \/ JobReturn
    \/ AllIdle /\ \E u \in Users, c \in Channels, ok \in BOOLEAN :
                     remove_user_from_channel(u, c, ok)

SpecKick == Init /\ [][NextKick]_vars

\* The sweeps over grants and whitelist entries when only the chat fails:
\* every store call returns, and the clock stands still while an operation
\* runs.
NextChat ==
    \/ AllIdle /\ Tick
    \/ AllIdle /\ \E u \in Users : cmd_start(u)
    \/ AllIdle /\ \E u \in Users, c \in Channels : process_payment_success("w1", u, c)
    \/ Process("w1", {TRUE})
    \/ AllIdle /\ \E u \in Users, c \in Channels : WlAddUser(u, c, TRUE)
    \/ WhitelistAdd({TRUE})
    \/ AllIdle /\ \E k \in {"periodic", "startup"} : JobStart(k)
    \/ SweepPeriodic({TRUE})
    \/ SweepStartup({TRUE})
    \/ \E ok \in BOOLEAN : JobBan(ok)
    \/ JobSbRead(TRUE)
    \/ JobSbWrite(TRUE)
    \/ \E ok \in BOOLEAN : JobMsg(ok)
    \/ JobReturn

SpecChat == Init /\ [][NextChat]_vars

\* Grants and both sweeps with every call returning, and the process
\* stopping inside the periodic sweep; the startup sweep is what runs when
\* it comes back.  The clock stands still while an operation runs.
NextCrash ==
    \/ AllIdle /\ Tick
    \/ AllIdle /\ \E u \in Users : cmd_start(u)
    \/ AllIdle /\ \E u \in Users, c \in Channels : process_payment_success("w1", u, c)
    \/ Process("w1", {TRUE})
    \/ AllIdle /\ \E k \in {"periodic", "startup"} : JobStart(k)
    \/ SweepPeriodic({TRUE})
    \/ SweepStartup({TRUE})
    \/ SweepBan({TRUE})
    \/ Crash

SpecCrash == Init /\ [][NextCrash]_vars

\* Redelivery: Robokassa sends the notification of a stored invoice, again
\* and again; the store and the chat may fail in every delivery.
Deliver(inv) ==
    \E ev \in {e \in Genuine : e.InvId = inv}, ok \in BOOLEAN : ConfirmLookup("w1", ev, ok)

NextLive ==
    \/ AllIdle /\ \E u \in Users : cmd_start(u)
    \/ AllIdle /\ \E u \in Users, c \in Channels, inv \in InvIds : callback_payment(u, c, inv)
    \/ \E inv \in InvIds : Deliver(inv)
    \/ Confirm("w1", BOOLEAN)

\* A running handler goes on to its response, and the notification of every
\* stored invoice keeps arriving.
SpecLive ==
    /\ Init /\ [][NextLive]_vars
    /\ WF_vars(Confirm("w1", BOOLEAN))
    /\ \A inv \in InvIds : SF_vars(Deliver(inv))

\* The whitelist operations started while a sweep runs, and a sweep started
\* while a whitelist operation runs: every statement is one step, every call
\* returns, the clock stands still while an operation runs, and the whitelist
\* is the one of channel_1.
NextMirror ==
    \/ AllIdle /\ Tick
    \/ AllIdle /\ \E u \in Users : cmd_start(u)
    \/ AllIdle /\ \E u \in Users, c \in Channels : process_payment_success("w1", u, c)
    \/ Process("w1", {TRUE})
    \/ web["w1"].pc = "idle" /\ \E u \in Users : WlAddUser(u, "channel_1", TRUE)
    \/ WhitelistAdd({TRUE})
    \/ web["w1"].pc = "idle" /\ \E u \in Users : WlDelete(u, "channel_1", TRUE)
    \/ WhitelistRemove({TRUE})
    \/ web["w1"].pc = "idle" /\ \E k \in {"periodic", "startup"} : JobStart(k)
    \/ SweepPeriodic({TRUE})
    \/ SweepStartup({TRUE})
    \/ SweepBan({TRUE})

SpecMirror == Init /\ [][NextMirror]_vars

\* Gift imports with their reminders, payments, and check_reminders; /start
\* arrives at any time, every store call returns, the Bot API calls of the
\* import may raise, and the clock stands still while an operation runs.
NextStale ==
    \/ AllIdle /\ Tick
    \/ \E u \in Users : cmd_start(u)
    \/ AllIdle /\ \E ids \in Batches : ImportStart(ids)
    \/ Import({TRUE}, BOOLEAN)
    \/ AllIdle /\ \E u \in Users, c \in Channels : process_payment_success("w1", u, c)
    \/ Process("w1", {TRUE})
    \/ AllIdle /\ JobStart("reminders")
    \/ Remind({TRUE})
    \/ JobReturn

SpecStale == Init /\ [][NextStale]_vars

\* Deliveries whose Shp_ parameters name any user id; every call returns.
NextShp ==
    \/ AllIdle /\ Tick
    \/ AllIdle /\ \E u \in Users : cmd_start(u)
    \/ AllIdle /\ \E u \in Users, c \in Channels, inv \in InvIds : callback_payment(u, c, inv)
    \/ \E ev \in EventsShp : ConfirmLookup("w1", ev, TRUE)
    \/ Confirm("w1", {TRUE})

SpecShp == Init /\ [][NextShp]_vars

\* Renewals: one invoice and gift imports for the same pairs, side by side;
\* the clock advances at any time, also between the statement that takes
\* datetime.now() and the statements of create_subscription, and the store
\* and the chat fail.
NextRenew ==
    \/ Tick
    \/ AllIdle /\ \E u \in Users : cmd_start(u)
    \/ AllIdle /\ \E u \in Users, c \in Channels : callback_payment(u, c, 1)
    \/ \E ev \in Genuine, ok \in BOOLEAN : ConfirmLookup("w1", ev, ok)
    \/ Confirm("w1", BOOLEAN)
    \/ \E ids \in Batches : ImportStart(ids)
    \/ Import(BOOLEAN, BOOLEAN)

SpecRenew == Init /\ [][NextRenew]_vars

\* ================================================== payment confirmation
PaymentOf(P, inv) == {r \in P : r.payment_id = inv}
Handling(f) == f.caller = "robokassa_result_handler"

\* the grant of the paid period that the handler frame f wrote
PaidRow(f) == SubRow(f.uid, f.ch, TRUE, "paid", f.start, f.start + PAID_SUBSCRIPTION_DAYS)

\* the event fails validation: unknown invoice, another amount, or a signature
\* that is not the digest of OutSum:InvId:password2[:shp]
Invalid(ev) ==
    /\ ev.SignatureValue # EmptyString
    /\ \/ get_payment(ev.InvId) = {}
       \/ \E r \in get_payment(ev.InvId) :
             \/ Abs(100 * r.amount - ev.OutSum) > 1
             \/ lower(ev.SignatureValue) #
                   md5(SignatureString(ev.OutSum, ev.InvId,
                                       Password2(r.channel_name), ShpDict(ev.shp)))

\* the event carries the stored amount and the signature of the invoice
Valid(ev) ==
    \E r \in get_payment(ev.InvId) :
        ev = Notification(ev.InvId, 100 * r.amount, Password2(r.channel_name), r.telegram_id)

C1_State ==
    \A p \in payments :
        p.status = "success" => SubRows(subs, p.telegram_id, p.channel_name) # {}

C1_Step ==
    \A p \in payments :
        (/\ p.status = "pending"
         /\ \E q \in payments' : q.payment_id = p.payment_id /\ q.status = "success")
        => \E w \in Web :
              /\ web[w].pc = "flip" /\ web[w].inv = p.payment_id
              /\ web[w].uid = p.telegram_id /\ web[w].ch = p.channel_name
              /\ SubRows(subs, p.telegram_id, p.channel_name) = {PaidRow(web[w])}

\* C1: a payment goes from pending to success only in the last step of a
\* handler run that has written the paid grant of the payment's (user,
\* channel), and a success payment always has a subscription row for its pair.
C1_FlipAfterGrant == []C1_State /\ [][C1_Step]_vars

C1_Witness ==
    \E p \in payments :
        /\ p.status = "success"
        /\ web["w1"].pc = "done" /\ web["w1"].inv = p.payment_id
        /\ web["w1"].stage = "bonus"
        /\ PaidRow(web["w1"]) \in subs

C2_Step ==
    /\ \A w \in Web : ConfirmFlip(w, TRUE) => web'[w].resp = Resp("OK", web[w].inv)
    /\ \A ev \in Events :
          (/\ ConfirmLookup("w1", ev, TRUE)
           /\ Valid(ev)
           /\ \E r \in get_payment(ev.InvId) : r.status = "success")
          => /\ web'["w1"].pc = "done"
             /\ web'["w1"].resp = Resp("OK", ev.InvId)
             /\ UNCHANGED <<payments, subs, reminders, memberships>>
             /\ chat' = <<>>
    /\ \A w \in Web :
          web[w].pc = "done" => UNCHANGED db /\ chat' = <<>>

\* C2: a valid event for an invoice in success status is answered with OK and
\* the invoice id, the answer of the delivery that made it success, and the
\* delivery changes no payment, subscription, reminder or membership row and
\* makes no chat call.
C2_Idempotent == [][C2_Step]_vars

C2_Witness ==
    /\ web["w1"].pc = "done" /\ web["w1"].stage = "-"
    /\ web["w1"].resp = Resp("OK", web["w1"].inv)
    /\ \E p \in payments : p.payment_id = web["w1"].inv /\ p.status = "success"
    /\ subs # {}

C3_Step ==
    \A ev \in Events :
        ConfirmLookup("w1", ev, TRUE) /\ Invalid(ev)
        => /\ web'["w1"].pc = "done"
           /\ web'["w1"].resp[1] \in {"ERROR: Payment not found",
                  "ERROR: Amount mismatch", "ERROR: Invalid signature"}
           /\ UNCHANGED <<payments, subs, memberships>>
           /\ chat' = <<>>

C3_Rejected ==
    \A w \in Web :
        web[w].pc = "done" /\ web[w].stage = "-" /\ web[w].resp[1] # "OK"
        => UNCHANGED db /\ chat' = <<>>

\* C3: an event of an unknown invoice, of another amount or with a wrong
\* signature is rejected in the step that checks it, whatever the status of
\* the payment; neither that step nor the return changes a payment,
\* subscription or membership row or makes a chat call.
C3_ValidationFrame == [][C3_Step /\ C3_Rejected]_vars

C3_Witness ==
    /\ web["w1"].pc = "done"
    /\ web["w1"].resp[1] = "ERROR: Invalid signature"
    /\ \E p \in payments : p.payment_id = web["w1"].inv /\ p.status = "success"

C4_Step ==
    \A w \in Web :
        (/\ Handling(web[w])
         /\ \/ ConfirmSelect(w, FALSE) \/ ConfirmWrite(w, FALSE)
            \/ ConfirmInvite(w, FALSE) \/ ConfirmHasEver(w, FALSE)
            \/ ConfirmNotify(w, FALSE))
        => /\ web'[w].pc = "done"
           /\ web'[w].resp = Resp("ERROR: Processing failed", 0)
           /\ payments' = payments

C4_State ==
    \A w \in Web :
        web[w].pc = "done" /\ web[w].resp[1] = "ERROR: Processing failed"
        => \E p \in payments : p.payment_id = web[w].inv /\ p.status = "pending"

\* C4: when a grant write (paid or bonus), the creation of an invite link, the
\* check for the bonus or the success message raises in a handler run, the
\* run ends with "ERROR: Processing failed" and its payment is still pending.
C4_ProcessingFailed == []C4_State /\ [][C4_Step]_vars

C4_Witness ==
    /\ web["w1"].pc = "done"
    /\ web["w1"].resp = Resp("ERROR: Processing failed", 0)
    /\ web["w1"].stage = "bonus"
    /\ chat = <<Call("invite", web["w1"].uid, "channel_1", FALSE)>>
    /\ PaidRow(web["w1"]) \in subs
    /\ \E p \in payments : p.payment_id = web["w1"].inv /\ p.status = "pending"

C7_Step ==
    /\ \A ev \in Events :
          (/\ ConfirmLookup("w1", ev, TRUE)
           /\ Valid(ev)
           /\ \E r \in get_payment(ev.InvId) : r.status = "pending")
          => web'["w1"].pc = "select" /\ web'["w1"].inv = ev.InvId
    /\ \A w \in Web :
          (/\ Handling(web[w])
           /\ \/ ConfirmSelect(w, TRUE) \/ ConfirmWrite(w, TRUE)
              \/ ConfirmAdd(w, BOOLEAN)
              \/ ConfirmInvite(w, TRUE) \/ ConfirmHasEver(w, TRUE)
              \/ ConfirmNotify(w, TRUE) \/ ConfirmFlip(w, TRUE))
          => \/ web'[w].pc \notin {"done", "idle"}
             \/ web'[w].pc = "done" /\ web'[w].resp = Resp("OK", web[w].inv)

C7_State ==
    \A w \in Web :
        (/\ web[w].pc = "done" /\ Handling(web[w])
         /\ web[w].resp[1] = "OK")
        => /\ SubRows(subs, web[w].uid, web[w].ch) = {PaidRow(web[w])}
           /\ \E p \in payments : p.payment_id = web[w].inv /\ p.status = "success"
           /\ \A p \in payments : p.payment_id = web[w].inv => p.status = "success"

\* C7: a delivery with the stored amount and the right signature for a pending
\* payment enters the processing; a run in which no call raises ends with OK
\* and the invoice id, and at that point the subscription of the payment's
\* pair is active, paid, with end = start + PAID_SUBSCRIPTION_DAYS, and the
\* payment is success.
C7_HappyPath == []C7_State /\ [][C7_Step]_vars

C7_Witness ==
    /\ web["w1"].pc = "done" /\ Handling(web["w1"])
    /\ web["w1"].resp = Resp("OK", web["w1"].inv)
    /\ web["w1"].ch = "channel_1" /\ web["w1"].stage = "paid"
    /\ subs = {PaidRow(web["w1"])}

\* ================================================================ ledger
C5_Step ==
    \A p \in payments :
        p.status = "success"
        => /\ \E q \in payments' : q.payment_id = p.payment_id
           /\ \A q \in payments' : q.payment_id = p.payment_id => q.status = "success"

\* C5: under link issuance, deliveries, imports and periodic sweeps, no step
\* takes a payment out of status success.
C5_StatusMonotone == [][C5_Step]_vars

C5_Witness ==
    \E p, q \in payments :
        /\ p.status = "success" /\ q.status = "pending"
        /\ \E r \in SubRows(subs, p.telegram_id, p.channel_name) : ~r.is_active
        /\ adm.pc = "imp_chat"

C6_State ==
    \A u \in Users, c \in Channels : Cardinality(SubRows(subs, u, c)) <= 1

C6_Step ==
    /\ \A w \in Web :
          web[w].pc = "write" /\ web'[w].pc = "add"
          => SubRows(subs', web[w].uid, Grant(web[w]).ch) =
                {SubRow(web[w].uid, Grant(web[w]).ch, TRUE,
                        IF web[w].stage = "paid" THEN "paid" ELSE "gift",
                        Grant(web[w]).start, Grant(web[w]).end)}
    /\ adm.pc = "imp_write" /\ adm'.pc = "imp_mark"
          => SubRows(subs', adm.uid, "channel_1") =
                {SubRow(adm.uid, "channel_1", TRUE, "gift", adm.start,
                        adm.start + FREE_TRIAL_DAYS)}

\* C6: a (user, channel) pair never has two subscription rows, and after the
\* write of a paid grant, of a bonus grant or of an imported gift the pair
\* has exactly one row, with the method and the dates of that grant.
C6_OneRowPerPair == []C6_State /\ [][C6_Step]_vars

C6_Witness ==
    /\ adm.pc = "imp_mark" /\ adm.existing /\ adm.start > 0
    /\ SubRows(subs, adm.uid, "channel_1") =
          {SubRow(adm.uid, "channel_1", TRUE, "gift", adm.start,
                  adm.start + FREE_TRIAL_DAYS)}
    /\ \E p \in payments :
          p.telegram_id = adm.uid /\ p.channel_name = "channel_1" /\ p.status = "success"

BonusRow(f) == SubRow(f.uid, "channel_1", TRUE, "gift", f.bstart, f.bstart + FREE_TRIAL_DAYS)

Other(c) == IF c = "channel_1" THEN "channel_2" ELSE "channel_1"

C8_State ==
    \A w \in Web :
        LET f == web[w] IN
        /\ f.stage = "bonus" => f.ch = "channel_2"
        /\ (/\ f.stage = "bonus"
            /\ \/ f.pc \in {"add", "add_invite", "add_send", "invite", "notify", "flip"}
               \/ f.pc = "done" /\ f.resp[1] \in {"OK", "-"})
           => SubRows(subs, f.uid, "channel_1") = {BonusRow(f)}
        /\ (f.stage = "paid" /\ f.ch = "channel_2" /\ f.pc \in {"notify", "flip", "done"}
               /\ f.resp[1] \in {"OK", "-"})
           => SubRows(subs, f.uid, "channel_1") # {}

C8_Step ==
    \A w \in Web :
        LET f == web[w]
            g == web'[w]
        IN  /\ (f.pc = "hasever" /\ g.pc \in {"select", "notify"})
               => (g.stage = "bonus") = (SubRows(subs, f.uid, "channel_1") = {})
            /\ (f.stage # "bonus" /\ g.stage = "bonus")
               => f.pc = "hasever" /\ f.ch = "channel_2" /\ f.stage = "paid"
            /\ f.stage = "paid"
               => SubRows(subs', f.uid, Other(f.ch)) = SubRows(subs, f.uid, Other(f.ch))

\* C8: the check after a paid grant of channel_2 starts the bonus grant
\* exactly when the user has no channel_1 row, active or not; once written,
\* the bonus is the user's one channel_1 row: active, gift, ending
\* FREE_TRIAL_DAYS after its start.  A run that starts no bonus leaves the
\* channel_1 row as it was, and a run for channel_1 never starts a bonus.
C8_BonusRule == []C8_State /\ [][C8_Step]_vars

C8_Witness ==
    LET f == web["w1"] IN
    /\ f.pc = "done" /\ f.resp = Resp("OK", f.inv)
    /\ f.ch = "channel_2" /\ f.stage = "paid"
    /\ \E r \in SubRows(subs, f.uid, "channel_1") : ~r.is_active /\ r.payment_method = "paid"

\* ================================================================ sweeps
Pair(u, c) == [telegram_id |-> u, channel_name |-> c]

\* the sweep finishes the row at the head of its snapshot
RowDone ==
    /\ job.pc \in {"sb_write", "msg"}
    /\ job'.todo = Tail(job.todo)

C9_Processed ==
    LET r == Head(job.todo) IN
    (/\ job.kind = "periodic" /\ RowDone
     /\ Pair(r.telegram_id, r.channel_name) \notin whitelist)
    => /\ r.is_active /\ r.end_date < now
       /\ SubRows(subs', r.telegram_id, r.channel_name) # {}
       /\ \A x \in SubRows(subs', r.telegram_id, r.channel_name) : ~x.is_active
       /\ MemRows(memberships', r.telegram_id, r.channel_name) # {}
       /\ \A m \in MemRows(memberships', r.telegram_id, r.channel_name) : m.is_banned

C9_Selected ==
    (job.kind = "periodic" /\ job.pc = "select")
    => \A i \in DOMAIN job'.todo :
          \E x \in subs :
              /\ x.telegram_id = job'.todo[i].telegram_id
              /\ x.channel_name = job'.todo[i].channel_name
              /\ x.is_active /\ x.end_date < now

C9_Frame ==
    (job.kind = "periodic" /\ job.pc # "idle")
    => \A u \in Users, c \in Channels :
          (\/ job.pc \in {"select", "end"}
           \/ Pair(u, c) # Pair(Head(job.todo).telegram_id, Head(job.todo).channel_name))
          => /\ SubRows(subs', u, c) = SubRows(subs, u, c)
             /\ MemRows(memberships', u, c) = MemRows(memberships, u, c)
             /\ \A i \in DOMAIN chat' : ~(chat'[i].uid = u /\ chat'[i].ch = c)

\* C9: when check_expired_subscriptions finishes a row outside the whitelist,
\* the row was active with end_date < now, the subscription is now inactive
\* and the membership of the pair is banned; the sweep selects only rows that
\* are active and ended, and it changes rows and calls the chat only for the
\* pair of the selected row it is processing, so a later sweep leaves a
\* processed pair alone until a grant makes its row active again.
C9_PeriodicSweep == [][C9_Processed /\ C9_Selected /\ C9_Frame]_vars

C9_Witness ==
    /\ job.kind = "periodic" /\ job.pc = "end" /\ ~job.error /\ job.at = NULL
    /\ subs # {}
    /\ \A x \in subs :
          /\ ~x.is_active /\ x.end_date < now
          /\ Pair(x.telegram_id, x.channel_name) \notin whitelist
          /\ \E m \in MemRows(memberships, x.telegram_id, x.channel_name) : m.is_banned

C10_NoBan ==
    job.pc # "idle"
    => /\ \A i \in DOMAIN chat' :
             chat'[i].op = "ban" => Pair(chat'[i].uid, chat'[i].ch) \notin whitelist
       /\ \A m \in memberships' \ memberships :
             m.is_banned => Pair(m.telegram_id, m.channel_name) \notin whitelist

C10_Recorded ==
    LET r == Head(job.todo) IN
    /\ (/\ job.kind = "periodic" /\ job.pc = "checkwl" /\ ~job'.error
        /\ Pair(r.telegram_id, r.channel_name) \in whitelist)
       => job'.pc = "sb_read" /\ ~job'.val
    /\ (/\ job.kind = "periodic" /\ RowDone
        /\ Pair(r.telegram_id, r.channel_name) \in whitelist)
       => /\ chat' = <<>>
          /\ MemRows(memberships', r.telegram_id, r.channel_name) # {}
          /\ \A m \in MemRows(memberships', r.telegram_id, r.channel_name) : ~m.is_banned

\* C10: no step of a sweep calls ban_chat_member for a pair of the whitelist
\* or writes a membership row with is_banned = TRUE for it; when
\* check_expired_subscriptions finishes the ended row of such a pair, the
\* membership row of the pair has is_banned = FALSE.
C10_WhitelistKept == [][C10_NoBan /\ C10_Recorded]_vars

C10_Witness ==
    /\ job.kind = "periodic" /\ job.pc = "end" /\ ~job.error /\ ~job.val
    /\ \E x \in subs :
          /\ ~x.is_active /\ x.end_date < now
          /\ Pair(x.telegram_id, x.channel_name) \in whitelist
          /\ \E m \in MemRows(memberships, x.telegram_id, x.channel_name) :
                ~m.is_banned /\ m.last_verified = job.at /\ job.at = now

\* the stored ban flag of a pair: COALESCE(cm.is_banned, FALSE)
Banned(u, c) == \E m \in MemRows(memberships, u, c) : m.is_banned

\* C11: when verify_all_subscriptions_on_startup has returned, every pair
\* with a subscription row is recorded banned exactly when its row is not
\* (active and ending after now) and the pair is not in the whitelist.
C11_StartupAgrees ==
    (job.kind = "startup" /\ job.pc = "end" /\ ~job.error)
    => \A x \in subs :
          Banned(x.telegram_id, x.channel_name)
             = ~(\/ x.is_active /\ x.end_date > now
                 \/ Pair(x.telegram_id, x.channel_name) \in whitelist)

C11_Witness ==
    /\ job.kind = "startup" /\ job.pc = "end" /\ ~job.error
    /\ \E x, y \in subs :
          /\ x.is_active /\ x.end_date > now
          /\ Pair(x.telegram_id, x.channel_name) \notin whitelist
          /\ \E m \in MemRows(memberships, x.telegram_id, x.channel_name) :
                ~m.is_banned /\ m.banned_at = NULL /\ m.last_verified = now /\ now > 0
          /\ ~y.is_active /\ Banned(y.telegram_id, y.channel_name)

\* ===================================================== overlapping runs
\* the delivery of frame f was processed and acknowledged
Acknowledged(f) == f.pc = "done" /\ Handling(f) /\ f.resp = Resp("OK", f.inv)

\* C12: when a delivery and a periodic sweep that ran at the same time have
\* both finished and the delivery was acknowledged, the subscription of the
\* paid pair is the active row the delivery wrote.
C12_SweepAndConfirm ==
    (Acknowledged(web["w1"]) /\ job.kind = "periodic" /\ job.pc = "end")
    => SubRows(subs, web["w1"].uid, web["w1"].ch) = {PaidRow(web["w1"])}

\* C13: of two deliveries of one invoice that run at the same time, at most
\* one writes the grant and updates the status.
C13_OneDelivery ==
    ~(/\ web["w1"].inv = web["w2"].inv
      /\ Acknowledged(web["w1"])
      /\ Acknowledged(web["w2"]))


\* ================================================================ reminders
\* the reminder row of the pair is due and not yet sent
Due(r) == ~r.reminder_sent /\ r.reminder_date <= now

\* the step is a create_reminder call that returned
Scheduled ==
    \E u \in Users, c \in Channels, d \in 0..MaxTime : Schedule(u, c, d, TRUE)

\* the rows check_reminders still has to handle: each a due row of the store,
\* no pair twice
C14_State ==
    (job.kind = "reminders" /\ job.pc \in {"row", "send", "mark"})
    => /\ \A i \in DOMAIN job.todo : job.todo[i] \in reminders /\ Due(job.todo[i])
       /\ \A i, j \in DOMAIN job.todo :
             (/\ job.todo[i].telegram_id = job.todo[j].telegram_id
              /\ job.todo[i].channel_name = job.todo[j].channel_name) => i = j

C14_Step ==
    /\ \A i \in DOMAIN chat' :
          chat'[i].op = "send_reminder"
          => /\ Len(chat') = 1
             /\ job.kind = "reminders"
             /\ \E r \in reminders :
                   /\ r.telegram_id = chat'[i].uid /\ r.channel_name = chat'[i].ch
                   /\ Due(r)
                   /\ r = Head(job.todo)
    /\ (job.kind = "reminders" /\ job.pc = "mark" /\ job' # job)
       => /\ [Head(job.todo) EXCEPT !.reminder_sent = TRUE] \in reminders'
          /\ \A i \in DOMAIN job'.todo : job'.todo[i] # Head(job.todo)
    /\ \A r \in reminders : r.reminder_sent => (r \in reminders' \/ Scheduled)

\* C14: a due reminder of a pair with an active subscription gets one
\* notification in the sweep that delivers it, the sweep leaves the row
\* sent once the notification has been delivered (the step the sweep takes
\* from line 36, whatever mark_reminder_sent does), and a reminder marked
\* sent gets no notification until create_reminder is called for its pair
\* again.
C14_SentOnce == []C14_State /\ [][C14_Step]_vars

C15_Step ==
    /\ (job.pc = "send" /\ RemSend(FALSE))
       => /\ reminders' = reminders
          /\ ~job'.error
          /\ job'.todo = Tail(job.todo)
          /\ job'.pc = IF Tail(job.todo) = <<>> THEN "end" ELSE "row"
    /\ (job.kind = "reminders" /\ RemSelect(TRUE))
       => \A r \in reminders : Due(r) => \E i \in DOMAIN job'.todo : job'.todo[i] = r
    /\ \A r \in reminders :
          ~r.reminder_sent => (r \in reminders' \/ RemMark(TRUE) \/ Scheduled)

\* C15: a notification that fails leaves the reminders as they were and
\* the sweep goes on with the next row; a row that is due and unsent is in
\* the selection of every sweep, and stays unsent until a delivery is marked.
C15_DeliveryFailure == [][C15_Step]_vars

C15_Witness ==
    /\ job.kind = "reminders" /\ job.pc = "row" /\ ~job.error
    /\ Len(chat) = 1 /\ chat[1].op = "send_reminder" /\ ~chat[1].ok
    /\ \E r \in reminders :
          r.telegram_id = chat[1].uid /\ r.channel_name = chat[1].ch /\ Due(r)

\* the reminder at the head of the sweep has no active subscription
NoActive ==
    /\ job.kind = "reminders" /\ job.pc = "row"
    /\ get_active_subscription(subs, Head(job.todo).telegram_id,
                               Head(job.todo).channel_name) = {}

\* ... because the subscription of its pair was deactivated
Lapsed ==
    /\ NoActive
    /\ SubRows(subs, Head(job.todo).telegram_id, Head(job.todo).channel_name) # {}

\* C16 as stated: the sweep goes on to send the reminder of a pair whose
\* subscription is not active.
C16_StillSent == [][(Lapsed /\ RemRow(TRUE)) => job'.pc = "send"]_vars

C16_Step ==
    /\ (NoActive /\ RemRow(TRUE))
       => /\ chat' = <<>>
          /\ reminders' = reminders
          /\ ~job'.error
          /\ job'.todo = Tail(job.todo)
          /\ job'.pc = IF Tail(job.todo) = <<>> THEN "end" ELSE "row"
    /\ \A i \in DOMAIN chat' :
          chat'[i].op = "send_reminder"
          => get_active_subscription(subs, chat'[i].uid, chat'[i].ch) # {}
    /\ (job.kind = "reminders" /\ job.pc = "select" /\ job'.pc # "select" /\ ~job'.error)
       => \A r \in reminders :
             (Due(r) /\ get_active_subscription(subs, r.telegram_id, r.channel_name) = {})
             => \E i \in DOMAIN job'.todo : job'.todo[i] = r

\* C16 (amended): a due reminder of a pair with no active subscription is
\* skipped: nothing is sent, the row keeps sent = false, and the sweep goes on
\* with the next row; every sweep selects the reminder while it is due.
C16_Skipped == [][C16_Step]_vars

C16_Witness ==
    /\ job.kind = "reminders" /\ job.pc = "end" /\ ~job.error
    /\ \E r \in reminders :
          /\ Due(r)
          /\ SubRows(subs, r.telegram_id, r.channel_name) # {}
          /\ get_active_subscription(subs, r.telegram_id, r.channel_name) = {}

C17_State ==
    \A r1, r2 \in reminders :
        (r1.telegram_id = r2.telegram_id /\ r1.channel_name = r2.channel_name) => r1 = r2

C17_Step ==
    (adm.pc = "idle" /\ adm'.pc = "end" /\ ~adm'.error
        /\ Schedule(adm'.uid, adm'.ch, adm'.start, TRUE))
    => LET u == adm'.uid
           c == adm'.ch
       IN  /\ {r \in reminders' : r.telegram_id = u /\ r.channel_name = c}
                = {[telegram_id |-> u, channel_name |-> c, reminder_date |-> adm'.start,
                    reminder_sent |-> FALSE]}
           /\ {r \in reminders' : ~(r.telegram_id = u /\ r.channel_name = c)}
                = {r \in reminders : ~(r.telegram_id = u /\ r.channel_name = c)}

\* C17: the reminders hold at most one row per pair, and a create_reminder
\* call leaves the pair's row with the date of the call and sent = false,
\* whatever the row held before.
C17_OneReminder == []C17_State /\ [][C17_Step]_vars

C17_Witness ==
    /\ adm.pc = "end" /\ ~adm.error /\ adm.existing
    /\ [telegram_id |-> adm.uid, channel_name |-> adm.ch, reminder_date |-> adm.start,
        reminder_sent |-> FALSE] \in reminders
    /\ Cardinality(reminders) = 2

\* ========================================================= sweep isolation
\* C18: a periodic sweep that ends while it deactivates a row, removes the
\* user from the chat, records the ban flag or sends the notification has no
\* selected row left after the one it was handling.
C18_EveryRow ==
    [][(/\ job.kind = "periodic"
        /\ job.pc \in {"row", "ban", "sb_read", "sb_write", "msg"}
        /\ job'.pc = "end")
       => Len(job'.todo) <= 1]_vars

\* =================================================================== import
\* C19: the import grants the trial only to a user whose gift_received flag
\* is not set, also when the identifier stands twice in the batch.
C19_GrantedOnce ==
    adm.pc \in {"imp_select", "imp_write"}
    => \A r \in get_user(adm.uid) : ~r.gift_received

\* ============================================================== check order
WrongAmount(ev) ==
    \E r \in get_payment(ev.InvId) : AmountMismatch(r.amount, ev.OutSum)

WrongSignature(ev) ==
    \E r \in get_payment(ev.InvId) :
        ~verify_payment_signature(ev.OutSum, ev.InvId, ev.SignatureValue,
                                  Password2(r.channel_name), ShpDict(ev.shp))

\* the checks of the handler answer text to the event
Answered(ev, text) ==
    ConfirmLookup("w1", ev, TRUE)
    => web'["w1"].pc = "done" /\ web'["w1"].resp[1] = text

\* C20 as stated: the signature is checked before the amount, so an event
\* for a known invoice with a wrong signature is answered "Invalid
\* signature" whatever its amount.
C20_SignatureFirst ==
    [][\A ev \in Events :
          (ev.SignatureValue # EmptyString /\ get_payment(ev.InvId) # {} /\ WrongSignature(ev))
          => Answered(ev, "ERROR: Invalid signature")]_vars

C20_Step ==
    \A ev \in Events :
        ev.SignatureValue # EmptyString
        => IF get_payment(ev.InvId) = {} THEN Answered(ev, "ERROR: Payment not found")
           ELSE IF WrongAmount(ev) THEN Answered(ev, "ERROR: Amount mismatch")
           ELSE IF WrongSignature(ev) THEN Answered(ev, "ERROR: Invalid signature")
           ELSE IF \E r \in get_payment(ev.InvId) : r.status = "success"
                THEN Answered(ev, "OK")
           ELSE ConfirmLookup("w1", ev, TRUE) => web'["w1"].pc = "select"

\* C20 (amended): the handler checks the unknown invoice first, then the
\* amount, then the signature, then the status: an event whose amount and
\* signature are both wrong is answered "Amount mismatch", and an event for
\* a successful invoice with a wrong amount or signature is rejected.
C20_CheckOrder == [][C20_Step]_vars

C20_Witness ==
    /\ web["w1"].pc = "done" /\ web["w1"].stage = "-"
    /\ web["w1"].resp[1] = "ERROR: Amount mismatch"
    /\ \E p \in payments : p.payment_id = web["w1"].inv /\ p.status = "success"

\* ======================================================= signature scheme
\* the key=value pairs of a request, in the order of their keys
Sorted(pairs) ==
    IF Len(pairs) = 2 /\ KeyRank(pairs[1][1]) > KeyRank(pairs[2][1])
    THEN <<pairs[2], pairs[1]>> ELSE pairs

\* amount:invoice_id:secret[:key=value:...]
Canonical(ev, secret) ==
    IF ev.shp = <<>> THEN <<ev.OutSum, ev.InvId, secret>>
    ELSE <<ev.OutSum, ev.InvId, secret, Sorted(ev.shp)>>

\* the signature is the digest of the canonical string under the secret of
\* the stored invoice's channel, in whatever letter case
Matches(ev) ==
    \E r \in get_payment(ev.InvId) :
        ev.SignatureValue.digest = md5(Canonical(ev, Password2(r.channel_name))).digest

C21_Step ==
    \A ev \in EventsSig :
        (/\ ConfirmLookup("w1", ev, TRUE)
         /\ get_payment(ev.InvId) # {} /\ ~WrongAmount(ev))
        => /\ (web'["w1"].resp[1] = "ERROR: Invalid signature") <=> ~Matches(ev)
           /\ \A ev2 \in EventsSig :
                 (/\ ev2.InvId = ev.InvId /\ ev2.SignatureValue = ev.SignatureValue
                  /\ Sorted(ev2.shp) = Sorted(ev.shp))
                 => Verdict(ev2, get_payment(ev.InvId)) = Verdict(ev, get_payment(ev.InvId))

\* C21: a request for a stored invoice with the stored amount is turned down
\* as "Invalid signature" exactly when its signature is not, letter case
\* aside, the digest of amount:invoice:secret and the parameters in key
\* order; the same parameters in another order of arrival get the same answer.
C21_Signature == [][C21_Step]_vars

C21_Witness ==
    /\ web["w1"].pc = "select"
    /\ \E ev \in EventsSig :
          /\ ev.InvId = web["w1"].inv
          /\ Len(ev.shp) = 2 /\ ev.shp[1][1] = "Shp_user_id"
          /\ ev.SignatureValue.upper
          /\ Verdict(ev, get_payment(ev.InvId)) = "process"

\* ================================================== kick_unauthorized_user
\* is_valid(user, channel, now): a row with active = true and end > now
IsValid(u, c) == \E x \in SubRows(subs, u, c) : x.is_active /\ x.end_date > now

\* C22: kick_unauthorized_user records a pair as not banned, and leaves the
\* user in the channel, only when the pair is valid or whitelisted.
C22_KickPolicy ==
    LET r == Head(job.todo) IN
    (job.kind = "kick" /\ job.pc \in {"sb_read", "sb_write"} /\ ~job.val)
    => IsValid(r.telegram_id, r.channel_name)
          \/ Pair(r.telegram_id, r.channel_name) \in whitelist

\* ==================================================== optimistic bookkeeping
C23_Step ==
    LET r == Head(job.todo) IN
    /\ (job.pc = "ban" /\ JobBan(FALSE))
       => /\ job'.pc = "sb_read" /\ job'.val
          /\ r.end_date <= now \/ ~r.is_active
          /\ Pair(r.telegram_id, r.channel_name) \notin whitelist
    /\ (job.pc = "sb_write" /\ job.val /\ job.onfail = "abort" /\ JobSbWrite(TRUE))
       => /\ \E wl \in BOOLEAN :
                MemRows(memberships', r.telegram_id, r.channel_name)
                   = {MemRow(r.telegram_id, r.channel_name, TRUE, wl, now, now)}
          /\ ~job'.error
          /\ job'.todo = Tail(job.todo)

\* C23: when ban_chat_member raises in a sweep, the sweep goes on to
\* set_user_banned(True), which leaves the pair's membership row banned with
\* banned_at and last_verified at the time of the sweep, and then goes on
\* with the next row.
C23_Optimistic == [][C23_Step]_vars

C23_Witness ==
    /\ job.pc = "end" /\ ~job.error /\ job.val /\ job.onfail = "abort"
    /\ \E m \in memberships :
          /\ m.is_banned /\ m.banned_at = now /\ m.last_verified = now
          /\ \E x \in SubRows(subs, m.telegram_id, m.channel_name) :
                ~(x.is_active /\ x.end_date > now)
          /\ Pair(m.telegram_id, m.channel_name) \notin whitelist

\* ========================================================== startup sweep
\* the stored flag of the snapshot row is what the policy asks for
Agrees(r) == r.is_banned = ~((r.is_active /\ r.end_date > now) \/ r.is_whitelisted)

\* C24 as stated: after a startup sweep every pair it visited has a
\* membership row verified at the time of the sweep.
C24_AllRefreshed ==
    (job.kind = "startup" /\ job.pc = "end" /\ ~job.error)
    => \A x \in subs :
          \E m \in MemRows(memberships, x.telegram_id, x.channel_name) :
             m.last_verified = now

C24_Step ==
    LET r == Head(job.todo) IN
    /\ (job.kind = "startup" /\ job.pc = "sb_write" /\ JobSbWrite(TRUE))
       => /\ MemRows(memberships', r.telegram_id, r.channel_name) # {}
          /\ \A m \in MemRows(memberships', r.telegram_id, r.channel_name) :
                m.last_verified = now /\ m.is_banned = job.val
    /\ (job.kind = "startup" /\ job.pc = "row" /\ Agrees(r) /\ job' # job)
       => /\ memberships' = memberships
          /\ job'.todo = Tail(job.todo)
          /\ job'.pc \in {"row", "end"}

\* C24 (amended): the startup sweep writes last_verified = now into the
\* membership row of every pair whose ban flag it sets, and passes over a
\* pair whose stored flag already agrees with the policy without touching
\* its membership row.
C24_Refreshed == [][C24_Step]_vars

C24_Witness ==
    /\ job.kind = "startup" /\ job.pc = "end" /\ ~job.error /\ job.at = now
    /\ \E x \in subs :
          /\ x.is_active /\ x.end_date > now
          /\ \A m \in MemRows(memberships, x.telegram_id, x.channel_name) :
                ~m.is_banned /\ m.last_verified < now
    /\ \E m \in memberships : m.last_verified = now

\* the pair of the snapshot row is valid or whitelisted in the store
Eligible(r) ==
    IsValid(r.telegram_id, r.channel_name) \/ Pair(r.telegram_id, r.channel_name) \in whitelist

C25_Step ==
    LET r == Head(job.todo) IN
    job.kind = "startup"
    => /\ \A i \in DOMAIN chat' :
             /\ chat'[i].op \in {"ban", "send_ended"}
             /\ chat'[i].uid = r.telegram_id /\ chat'[i].ch = r.channel_name
             /\ chat'[i].op = "ban" => (~Eligible(r) /\ ~Banned(r.telegram_id, r.channel_name))
       /\ (job.pc = "row" /\ Eligible(r) /\ Banned(r.telegram_id, r.channel_name) /\ job' # job)
          => job'.pc = "sb_read" /\ ~job'.val /\ chat' = <<>>
       /\ (job.pc = "sb_write" /\ ~job.val /\ JobSbWrite(TRUE))
          => ~\E m \in MemRows(memberships', r.telegram_id, r.channel_name) : m.is_banned

\* C25: the only chat calls of the startup sweep are ban_chat_member, for a
\* pair that is neither valid nor whitelisted and not recorded banned, and
\* the message that follows it; for a pair that is eligible and recorded
\* banned the sweep only sets is_banned = false in the store.
C25_NoUnban == [][C25_Step]_vars

C25_Witness ==
    /\ job.kind = "startup" /\ job.pc \in {"row", "end"} /\ ~job.error
    /\ ~job.val /\ job.at = now /\ job.onfail = "abort" /\ chat = <<>>
    /\ \E m \in memberships :
          /\ ~m.is_banned /\ m.last_verified = now /\ now > 0
          /\ IsValid(m.telegram_id, m.channel_name)
          /\ Pair(m.telegram_id, m.channel_name) \notin whitelist

\* every pair with a subscription row is recorded banned exactly when it is
\* neither valid nor whitelisted
Settled ==
    \A x \in subs :
        Banned(x.telegram_id, x.channel_name)
           = ~(\/ IsValid(x.telegram_id, x.channel_name)
               \/ Pair(x.telegram_id, x.channel_name) \in whitelist)

C26_State == (job.kind = "startup" /\ job.pc = "end" /\ ~job.error) => Settled

C26_Step ==
    (job.kind = "startup" /\ job.pc \in {"select", "row"} /\ Settled)
    => /\ chat' = <<>>
       /\ memberships' = memberships
       /\ job'.pc \in {"row", "end"}
       /\ Settled'

\* C26: a startup sweep that returns leaves every pair's ban flag as the
\* policy asks, and a startup sweep that starts from such a state, as a
\* second run does, makes no chat call and writes no membership row.
C26_StartupIdempotent == []C26_State /\ [][C26_Step]_vars

C26_Witness ==
    /\ job.kind = "startup" /\ job.pc = "end" /\ ~job.error /\ job.at = NULL
    /\ Settled
    /\ \E m \in memberships : m.is_banned /\ m.last_verified = now
    /\ \E x \in subs : IsValid(x.telegram_id, x.channel_name)

\* ========================================================= crash recovery
\* the subscription row was set inactive and no ban of the pair was recorded
\* since its period ended: the removal that goes with the deactivation is
\* still owed
Unremoved(x) ==
    /\ ~x.is_active
    /\ Pair(x.telegram_id, x.channel_name) \notin whitelist
    /\ ~\E m \in MemRows(memberships, x.telegram_id, x.channel_name) :
          m.is_banned /\ m.banned_at >= x.end_date

\* C27: when a startup sweep has returned, no removal is owed any more: a
\* pair that a stopped periodic sweep left inactive and unremoved has been
\* removed and recorded banned by the startup sweep.
C27_Recovered ==
    (job.kind = "startup" /\ job.pc = "end" /\ ~job.error)
    => \A x \in subs : ~Unremoved(x)

\* ============================================================= redelivery
\* a call of the handler raises in this step
Failing ==
    /\ web["w1"].pc # "done" /\ web'["w1"].pc = "done"
    /\ web'["w1"].resp[1] # "OK"

\* from some point on no call raises
FailuresStop == <>[][~Failing]_vars

Flipped(inv) == \E p \in payments : p.payment_id = inv /\ p.status = "success"

\* C28: when from some point on no call raises, every stored invoice whose
\* notification keeps arriving reaches success and its delivery is
\* acknowledged.
C28_Redelivery ==
    FailuresStop
    => \A inv \in InvIds :
          (get_payment(inv) # {})
             ~> (Flipped(inv) /\ web["w1"].inv = inv /\ web["w1"].resp = Resp("OK", inv))

C28_Witness ==
    /\ Acknowledged(web["w1"])
    /\ Cardinality(payments) = 1 /\ Flipped(web["w1"].inv)
    /\ web["w1"].ch = "channel_2" /\ web["w1"].stage = "paid"
    /\ \E x \in SubRows(subs, web["w1"].uid, "channel_1") : x.payment_method = "gift"

\* ================================================ chat failures in confirm
\* a chat call of the confirmation fails in this step: one of the calls of
\* add_user_to_channel, the invite link, or the success message
ChatCallFails ==
    \/ ConfirmAdd("w1", {FALSE})
    \/ ConfirmInvite("w1", FALSE)
    \/ ConfirmNotify("w1", FALSE)

\* C29: a failing chat call during the confirmation does not abort it: the
\* handler goes on to its next step, with the rows of the grant in place,
\* instead of answering at once.
C29_NotAborted ==
    [][ChatCallFails
         => /\ web'["w1"].pc # "done"
            /\ subs' = subs]_vars

\* ================================================= grants and memberships
\* a step of a granting operation: the confirmation of a payment (paid and
\* bonus grant) or the import of gift subscriptions
GrantStep ==
    \/ \E ev \in Genuine, ok \in BOOLEAN : ConfirmLookup("w1", ev, ok)
    \/ Confirm("w1", BOOLEAN)
    \/ \E ids \in Batches : ImportStart(ids)
    \/ Import(BOOLEAN, BOOLEAN)

\* C30: no step of a granting operation changes a channel_memberships row, so
\* is_banned, is_whitelisted, banned_at and last_verified of every pair are
\* what they were before the grant.
C30_Step == GrantStep => memberships' = memberships

C30_NoMembershipWrite == [][C30_Step]_vars

\* an acknowledged payment for a pair that is still recorded as banned while
\* its subscription is active and running
C30_Witness ==
    LET f == web["w1"] IN
    /\ Acknowledged(f)
    /\ \E m \in MemRows(memberships, f.uid, f.ch) : m.is_banned
    /\ \E x \in SubRows(subs, f.uid, f.ch) :
          x.is_active /\ x.end_date > now /\ x.payment_method = "paid"

\* ================================================================ renewal
\* the grant's dates are taken when the operation reaches its
\* create_subscription call: start_date = datetime.now() (handlers.py 170
\* and 346)
C31_Dates ==
    /\ (web["w1"].pc # "select" /\ web'["w1"].pc = "select" /\ web'["w1"].stage = "paid")
       => /\ web'["w1"].start = now
          /\ web'["w1"].end = now + PAID_SUBSCRIPTION_DAYS
    /\ (adm.pc # "imp_select" /\ adm'.pc = "imp_select") => adm'.start = now

\* C31: a grant over an existing row replaces its dates: after the paid write
\* the row of the pair runs from the confirmation time to that time plus the
\* paid period, and after the gift write of the import from the import time
\* to that time plus the trial period, whatever the end date of the row was.
C31_Step ==
    /\ C31_Dates
    /\ (ConfirmWrite("w1", TRUE) /\ web'["w1"].pc = "add" /\ web["w1"].stage = "paid")
       => SubRows(subs', web["w1"].uid, web["w1"].ch)
             = {SubRow(web["w1"].uid, web["w1"].ch, TRUE, "paid",
                       web["w1"].start, web["w1"].start + PAID_SUBSCRIPTION_DAYS)}
    /\ (ImportWrite(TRUE) /\ adm'.pc = "imp_mark")
       => SubRows(subs', adm.uid, "channel_1")
             = {SubRow(adm.uid, "channel_1", TRUE, "gift",
                       adm.start, adm.start + FREE_TRIAL_DAYS)}

C31_Replaces == [][C31_Step]_vars

\* the gift write of an import over a paid row that ended later: the
\* confirmation running beside the import has written its paid row, whose end
\* is after import time plus the trial period, and the UPDATE of the import
\* has then left the row ending at import time plus the trial period
C31_Witness ==
    LET f == web["w1"] IN
    /\ adm.pc = "imp_mark" /\ adm.existing
    /\ f.pc \in {"add", "add_invite", "add_send", "invite", "notify", "flip"}
    /\ f.stage = "paid" /\ f.uid = adm.uid /\ f.ch = "channel_1"
    /\ f.end > adm.start + FREE_TRIAL_DAYS
    /\ SubRows(subs, adm.uid, "channel_1")
          = {SubRow(adm.uid, "channel_1", TRUE, "gift",
                    adm.start, adm.start + FREE_TRIAL_DAYS)}

\* ================================================== the expiry boundary
\* C32: after a periodic sweep that ran to its end no subscription is active
\* with end_date <= now, the boundary end_date = now included.
C32_BoundaryExpired ==
    (job.kind = "periodic" /\ job.pc = "end" /\ ~job.error)
    => \A x \in subs : ~(x.is_active /\ x.end_date <= now)

\* ================================================== the whitelist mirror
\* C33: whenever no operation is between two of its statements, every
\* channel_memberships row has is_whitelisted equal to whether its pair is in
\* the whitelist table, whatever the interleaving of add_whitelist_user,
\* remove_whitelist_user and set_user_banned that led there.
C33_Mirror ==
    AllIdle
    => \A m \in memberships :
          m.is_whitelisted <=> (Pair(m.telegram_id, m.channel_name) \in whitelist)

\* ======================================= whitelist and sweep, interleaved
\* C34: once a sweep and an add_whitelist_user that ran at the same time have
\* both finished, no pair of the whitelist is recorded as banned.
C34_WhitelistWins ==
    AllIdle
    => \A m \in memberships :
          (Pair(m.telegram_id, m.channel_name) \in whitelist) => ~m.is_banned

\* ====================================================== overlapping grants
\* both confirmations are for invoices of one pair, different invoices, and
\* the SELECT of each paid grant found no row of the pair
OverlappingGrants ==
    /\ web["w1"].pc = "done" /\ web["w2"].pc = "done"
    /\ Handling(web["w1"]) /\ Handling(web["w2"])
    /\ web["w1"].inv # web["w2"].inv
    /\ web["w1"].uid = web["w2"].uid /\ web["w1"].ch = web["w2"].ch
    /\ web["w1"].ch = "channel_1"
    /\ ~web["w1"].existing /\ ~web["w2"].existing

\* C35: two overlapping grants for a pair that had no row both complete
\* without a store error and leave exactly one subscription row of the pair.
C35_AtomicUpsert ==
    OverlappingGrants
    => /\ web["w1"].resp[1] # "ERROR: Processing failed"
       /\ web["w2"].resp[1] # "ERROR: Processing failed"
       /\ Cardinality(SubRows(subs, web["w1"].uid, web["w1"].ch)) = 1

\* ============================================================ row dates
\* C36: every active subscription row ends after it starts, whether written
\* by a payment confirmation, a bonus grant or a gift import, and whatever
\* the sweeps did to the other rows.
C36_EndAfterStart == \A x \in subs : x.is_active => x.end_date > x.start_date

\* a periodic sweep has ended a paid row and left an active gift row
C36_Witness ==
    /\ job.kind = "periodic" /\ job.pc = "end"
    /\ \E x \in subs : x.is_active /\ x.payment_method = "gift"
    /\ \E y \in subs : ~y.is_active /\ y.payment_method = "paid"

\* ========================================================= stale reminders
\* C37: a reminder whose fire-at time lies before the start of the paid
\* period the pair now has was scheduled for the period before it, and is
\* not sent: the confirmation rescheduled or cleared it.
C37_Superseded ==
    [][RemSend(TRUE)
         => LET r == Head(job.todo) IN
            \A x \in SubRows(subs, r.telegram_id, r.channel_name) :
                x.payment_method = "paid" => r.reminder_date >= x.start_date]_vars

\* ==================================================== caller-supplied input
\* the request passes the checks of the handler against the stored payment
ValidFor(ev) == Verdict(ev, get_payment(ev.InvId)) \in {"process", "OK"}

\* the user id the request names in Shp_user_id, 0 when it names none
Named(ev) ==
    LET d == {kv \in ShpDict(ev.shp) : kv[1] = "Shp_user_id"}
    IN  IF d = {} THEN 0 ELSE (CHOOSE kv \in d : TRUE)[2]

\* C38: two valid requests for one invoice that differ only in their Shp_
\* parameters take the handler to the same state, and the user and channel of
\* the grant it goes on to write are those of the stored payment row.
C38_Step ==
    \A ev1 \in EventsShp :
        (ValidFor(ev1) /\ ConfirmLookup("w1", ev1, TRUE))
        => /\ \A ev2 \in EventsShp :
                 (ev2.InvId = ev1.InvId /\ ValidFor(ev2))
                 => ConfirmLookup("w1", ev2, TRUE)
           /\ web'["w1"].pc = "select"
              => \E p \in get_payment(ev1.InvId) :
                    /\ web'["w1"].uid = p.telegram_id
                    /\ web'["w1"].ch = p.channel_name

\* every subscription row belongs to the user of a payment
C38_State ==
    \A x \in subs : \E p \in payments : p.telegram_id = x.telegram_id

C38_StoredOnly == []C38_State /\ [][C38_Step]_vars

\* the handler has answered OK after a grant that valid requests naming
\* another user id, and naming none, lead to as well
C38_Witness ==
    LET f == web["w1"] IN
    /\ Acknowledged(f)
    /\ PaidRow(f) \in subs
    /\ \E ev \in EventsShp :
          ev.InvId = f.inv /\ ValidFor(ev) /\ Named(ev) \notin {0, f.uid}
    /\ \E ev \in EventsShp : ev.InvId = f.inv /\ ValidFor(ev) /\ Named(ev) = 0

\* ============================================================== banned_at
\* C39: every channel_memberships row has banned_at set exactly when it is
\* banned; set_user_banned(True) stores the current time, and
\* set_user_banned(False) and add_whitelist_user clear the time with the flag.
C39_State == \A m \in memberships : (m.banned_at # NULL) <=> m.is_banned

C39_Step ==
    /\ JobSbWrite(TRUE)
       => LET r == Head(job.todo) IN
          /\ MemRows(memberships', r.telegram_id, r.channel_name) # {}
          /\ \A m \in MemRows(memberships', r.telegram_id, r.channel_name) :
                IF job.val THEN m.is_banned /\ m.banned_at = now
                ELSE ~m.is_banned /\ m.banned_at = NULL
    /\ WlMember(TRUE)
       => /\ MemRows(memberships', adm.uid, adm.ch) # {}
          /\ \A m \in MemRows(memberships', adm.uid, adm.ch) :
                ~m.is_banned /\ m.banned_at = NULL

C39_BannedAt == []C39_State /\ [][C39_Step]_vars

\* a startup sweep has ended whose last set_user_banned call cleared the flag
\* of a pair recorded as banned, next to a row that is not banned
C39_Witness ==
    /\ job.kind = "startup" /\ job.pc = "end" /\ ~job.error
    /\ ~job.val /\ job.at = now
    /\ \E m \in memberships : ~m.is_banned /\ m.banned_at = NULL /\ m.last_verified = now
====
